---- MODULE Spec2Model ----
(***************************************************************************)
(* Prop Gem AI: the edge-scoring and line-shopping pipeline.               *)
(*                                                                         *)
(*   engine.py    MathEngine        implied probability, true win %, Kelly *)
(*   analyst.py   PropAnalyst       estimator response -> edge / rating    *)
(*   app.py       run_analysis      per-outcome odds lookup, line shopping *)
(*   prop_gem.py  main/process_prop batch workflow                         *)
(*   fetcher.py   OddsFetcher       keyed cache with a time-to-live        *)
(*                                                                         *)
(* Numbers.  Python floats are modelled as exact rationals <<n, d>> in     *)
(* lowest terms with d > 0, and, where the rounding of binary64 decides    *)
(* the outcome (the sign of the stake), as binary64 values.  Decimal odds  *)
(* and probabilities are written in hundredths (191 is 1.91), edges in     *)
(* ten-thousandths (264 is 0.0264), lines in tenths (285 is 28.5), times   *)
(* in minutes.                                                             *)
(***************************************************************************)
EXTENDS Integers, Sequences, FiniteSets, TLC

VARIABLES
    risk_mult,      \* MathEngine.risk_mult, a rational
    kelly_call,     \* the last calculate_kelly_stake call: arguments and result
    now,            \* datetime.now(), in minutes
    enabled,        \* PropAnalyst.enabled
    analysis_cache, \* the file analysis_cache.json
    analysis,       \* the last analyze_prop call: arguments, path taken, outcome
    rec,            \* what the last process_prop call returned
    props,          \* the quotes get_props_for_game returned for the event
    run,            \* the last run over props: run_analysis, or the batch main
    nba_cache,      \* the file nba_cache.json (OddsFetcher.cache_file)
    cache_call,     \* the last cache operation: arguments and result
    saved,          \* history: per file and key, the last payload saved and when
    cache_saves,    \* history: the number of saves so far
    trends_cache,   \* the file trends_cache.json
    workers,        \* the batch workers: where each is in its two cache saves
    implied_call,   \* the last calculate_implied_probability call: argument and outcome
    pool,           \* the futures of the batch pool: prop, position, what process_prop returned
    results,        \* main's results list
    completed,      \* main's completed counter
    api_key,        \* OddsFetcher.api_key is a real key (not empty, not PLACEHOLDER)
    fetch_call,     \* the last get_schedule / get_props_for_game call: arguments and outcome
    listing,        \* the results list handed to a view (sorted in place by it)
    screen,         \* what the interactive page showed for the list, or None
    report,         \* what display_results printed for the list, or None
    results_file,   \* the lines of the saved results file, or None
    research_enabled, \* TrendResearcher.enabled
    trends_call,    \* the last get_player_trends call: arguments, path taken, outcome
    better_call,    \* the last find_better_odds call: the reference prop and what was returned
    stake_call      \* process_prop in binary64: the prop, its analysis and kelly_pct

kellyVars == <<risk_mult, kelly_call>>
analystVars == <<now, enabled, analysis_cache, analysis, rec>>

shopVars == <<props, run>>
cacheVars == <<nba_cache, cache_call, saved, cache_saves>>
workerVars == <<trends_cache, workers>>
impliedVars == <<implied_call>>
poolVars == <<pool, results, completed>>
fetchVars == <<api_key, fetch_call>>
viewVars == <<listing, screen, report, results_file>>
trendVars == <<research_enabled, trends_call>>
betterVars == <<better_call>>
stakeVars == <<stake_call>>

vars == <<risk_mult, kelly_call, now, enabled, analysis_cache, analysis, rec,
         props, run, nba_cache, cache_call, saved, cache_saves,
         trends_cache, workers,
         implied_call,
         pool, results, completed,
         api_key, fetch_call,
         listing, screen, report, results_file,
         research_enabled, trends_call,
         better_call,
         stake_call>>

\* Python's None where a record is expected.
None == [none |-> TRUE]

(***************************************************************************)
(* Exact rational arithmetic standing for Python's float arithmetic.       *)
(***************************************************************************)
Abs(i) == IF i < 0 THEN -i ELSE i

RECURSIVE Gcd(_, _)
Gcd(a, b) == IF b = 0 THEN a ELSE Gcd(b, a % b)

Rat(n, d) ==
    LET s == IF d < 0 THEN -1 ELSE 1
        g == Gcd(Abs(n), Abs(d))
    IN  <<(s * n) \div g, (s * d) \div g>>

\* Sums, products and comparisons cancel common factors before multiplying.
RAdd(x, y) ==
    LET g == Gcd(x[2], y[2])
    IN  Rat(x[1] * (y[2] \div g) + y[1] * (x[2] \div g), (x[2] \div g) * y[2])
RNeg(x) == <<-x[1], x[2]>>
RSub(x, y) == RAdd(x, RNeg(y))
RMul(x, y) ==
    LET g1 == Gcd(Abs(x[1]), y[2])
        g2 == Gcd(Abs(y[1]), x[2])
    IN  Rat((x[1] \div g1) * (y[1] \div g2), (x[2] \div g2) * (y[2] \div g1))
\* x / y for y # 0.
RDiv(x, y) == RMul(x, Rat(y[2], y[1]))
RLt(x, y) == RSub(x, y)[1] < 0
RLe(x, y) == RSub(x, y)[1] <= 0
RMax(x, y) == IF RLt(x, y) THEN y ELSE x
RMin(x, y) == IF RLt(y, x) THEN y ELSE x
RZero == Rat(0, 1)
ROne == Rat(1, 1)

Hundredths(i) == Rat(i, 100)
TenThousandths(i) == Rat(i, 10000)

(***************************************************************************)
(* config.py                                                               *)
(***************************************************************************)
RISK_MULTIPLIER == 25

(***************************************************************************)
(* engine.py: MathEngine                                                   *)
(***************************************************************************)
\* 1 / decimal_odds; Python raises ZeroDivisionError when decimal_odds is 0,
\* which callers guard with ImpliedRaises.
ImpliedRaises(decimal_odds) == decimal_odds[1] = 0

calculate_implied_probability(decimal_odds) == RDiv(ROne, decimal_odds)

calculate_true_win_pct(implied_prob, edge_pct) == RAdd(implied_prob, edge_pct)

FullKelly(win_prob, decimal_odds) ==
    LET b == RSub(decimal_odds, ROne)
        p == win_prob
        q == RSub(ROne, p)
    IN  RDiv(RSub(RMul(b, p), q), b)

KellyNoFloor(win_prob, decimal_odds) ==
    LET b == RSub(decimal_odds, ROne)
    IN  IF RLe(b, RZero) THEN RZero
        ELSE RMul(FullKelly(win_prob, decimal_odds), risk_mult)

KellyNoOddsGuard(win_prob, decimal_odds) ==
    LET b == RSub(decimal_odds, ROne)
    IN  IF b = RZero THEN RZero
        ELSE RMax(RZero, RMul(FullKelly(win_prob, decimal_odds), risk_mult))

calculate_kelly_stake(win_prob, decimal_odds) ==
    LET b == RSub(decimal_odds, ROne)
    IN  IF RLe(b, RZero) THEN RZero
        ELSE RMax(RZero, RMul(FullKelly(win_prob, decimal_odds), risk_mult))


\* MathEngine(): risk_mult is the configured multiplier; the stake calculator
\* is also exercised under every multiplier of RiskMultipliers.
KellyProbs == {0, 10, 25, 35, 50, 52, 55, 65, 75, 90, 100}
KellyOdds == {0, 50, 100, 101, 150, 191, 200, 300}
RiskMultipliers == {0, RISK_MULTIPLIER, 50, 100}

(***************************************************************************)
(* Binary64 arithmetic.  The interpreter computes every float operation as *)
(* the exact result rounded to the nearest value with a 53-bit             *)
(* significand, ties to even.  A natural number of any size is a sequence  *)
(* of limbs to the base 2^15, least significant first, without leading     *)
(* zero limbs; a float is sign * m * 2^e with m of exactly 53 bits, or     *)
(* zero.  The exponents of this program stay far from the ends of the      *)
(* binary64 range, so overflow and subnormal numbers do not arise.         *)
(***************************************************************************)
Base == 2^15
Significand == 53

RECURSIVE Trim(_)
Trim(x) ==
    IF x = <<>> THEN x
    ELSE IF x[Len(x)] = 0 THEN Trim(SubSeq(x, 1, Len(x) - 1))
    ELSE x

RECURSIVE BigOf(_)
BigOf(n) == IF n = 0 THEN <<>> ELSE <<n % Base>> \o BigOf(n \div Base)

RECURSIVE AddCarry(_, _, _)
AddCarry(x, y, c) ==
    IF x = <<>> /\ y = <<>> THEN (IF c = 0 THEN <<>> ELSE <<c>>)
    ELSE LET a == IF x = <<>> THEN 0 ELSE Head(x)
             b == IF y = <<>> THEN 0 ELSE Head(y)
             s == a + b + c
         IN  <<s % Base>> \o AddCarry(IF x = <<>> THEN x ELSE Tail(x),
                                      IF y = <<>> THEN y ELSE Tail(y),
                                      s \div Base)
BigAdd(x, y) == AddCarry(x, y, 0)

\* x - y - c for x >= y + c.
RECURSIVE SubBorrow(_, _, _)
SubBorrow(x, y, c) ==
    IF x = <<>> THEN <<>>
    ELSE LET b == IF y = <<>> THEN 0 ELSE Head(y)
             d == Head(x) - b - c
         IN  <<IF d < 0 THEN d + Base ELSE d>>
                 \o SubBorrow(Tail(x), IF y = <<>> THEN y ELSE Tail(y),
                              IF d < 0 THEN 1 ELSE 0)
BigSub(x, y) == Trim(SubBorrow(x, y, 0))

RECURSIVE CmpFrom(_, _, _)
CmpFrom(x, y, i) ==
    IF i = 0 THEN 0
    ELSE IF x[i] < y[i] THEN -1
    ELSE IF x[i] > y[i] THEN 1
    ELSE CmpFrom(x, y, i - 1)
\* -1, 0 or 1 as x is less than, equal to or greater than y.
BigCmp(x, y) ==
    IF Len(x) < Len(y) THEN -1
    ELSE IF Len(x) > Len(y) THEN 1
    ELSE CmpFrom(x, y, Len(x))

\* x * k + c for one limb k.
RECURSIVE MulLimb(_, _, _)
MulLimb(x, k, c) ==
    IF x = <<>> THEN (IF c = 0 THEN <<>> ELSE <<c>>)
    ELSE LET s == Head(x) * k + c
         IN  <<s % Base>> \o MulLimb(Tail(x), k, s \div Base)

RECURSIVE MulFrom(_, _)
MulFrom(x, y) ==
    IF y = <<>> THEN <<>>
    ELSE BigAdd(MulLimb(x, Head(y), 0), <<0>> \o MulFrom(x, Tail(y)))
BigMul(x, y) == Trim(MulFrom(x, y))

\* x * 2^k.
ShiftLeft(x, k) ==
    IF x = <<>> THEN x
    ELSE [i \in 1..(k \div 15) |-> 0] \o MulLimb(x, 2^(k % 15), 0)

\* The limbs 1..i of x \div d for one limb d, r being the remainder left by
\* the limbs above i.
RECURSIVE DivLimbFrom(_, _, _, _)
DivLimbFrom(x, d, i, r) ==
    IF i = 0 THEN <<>>
    ELSE LET part == r * Base + x[i]
         IN  Append(DivLimbFrom(x, d, i - 1, part % d), part \div d)

\* x \div 2^k.
ShiftRight(x, k) ==
    IF Len(x) <= k \div 15 THEN <<>>
    ELSE LET y == SubSeq(x, (k \div 15) + 1, Len(x))
         IN  Trim(DivLimbFrom(y, 2^(k % 15), Len(y), 0))

RECURSIVE LimbBits(_)
LimbBits(n) == IF n = 0 THEN 0 ELSE 1 + LimbBits(n \div 2)
BitLen(x) == IF x = <<>> THEN 0 ELSE (Len(x) - 1) * 15 + LimbBits(x[Len(x)])
IsOdd(x) == x # <<>> /\ x[1] % 2 = 1

\* F applied to the value of x: x is computed once, before F is.
With(x, F(_)) == CHOOSE result \in {F(value) : value \in {x}} : TRUE

\* One step of long division: quotient bit j of st.rem / d.
DivStep(st, d, j) ==
    With(ShiftLeft(d, j), LAMBDA t :
        IF BigCmp(st.rem, t) >= 0
        THEN [quot |-> BigAdd(st.quot, ShiftLeft(<<1>>, j)),
              rem |-> BigSub(st.rem, t)]
        ELSE st)

\* n steps of long division, from quotient bit j down.
RECURSIVE DivBits(_, _, _, _)
DivBits(st, d, j, n) ==
    IF n = 0 THEN st
    ELSE With(DivStep(st, d, j), LAMBDA next : DivBits(next, d, j - 1, n - 1))

\* Long division: the quotient bits j, j-1, ..., 0 of st.rem / d added to
\* st.quot, and the remainder, eight bits at a time.
RECURSIVE LongDiv(_, _, _)
LongDiv(st, d, j) ==
    IF j < 0 THEN st
    ELSE With(DivBits(st, d, j, IF j < 7 THEN j + 1 ELSE 8), LAMBDA next :
             LongDiv(next, d, j - 8))

FZero == [sign |-> 0, m |-> <<>>, e |-> 0]

\* The float nearest to sign * M * 2^E for M of L bits, ties to even.
RoundBits(sign, M, L, E) ==
    IF L <= Significand
    THEN [sign |-> sign, m |-> ShiftLeft(M, Significand - L),
          e |-> E - (Significand - L)]
    ELSE With(ShiftRight(M, L - Significand), LAMBDA q :
         With(BigCmp(BigSub(M, ShiftLeft(q, L - Significand)),
                     ShiftLeft(<<1>>, L - Significand - 1)), LAMBDA half :
         With(IF half > 0 \/ (half = 0 /\ IsOdd(q))
              THEN BigAdd(q, <<1>>) ELSE q, LAMBDA r :
             IF BitLen(r) > Significand
             THEN [sign |-> sign, m |-> ShiftRight(r, 1),
                   e |-> E + (L - Significand) + 1]
             ELSE [sign |-> sign, m |-> r, e |-> E + (L - Significand)])))

\* The float nearest to sign * big * 2^E, ties to even.
RoundDyadic(sign, big, E) ==
    With(big, LAMBDA M :
        IF M = <<>> \/ sign = 0 THEN FZero
        ELSE With(BitLen(M), LAMBDA L : RoundBits(sign, M, L, E)))

\* The float nearest to sign * (N / D) * 2^E for naturals N and D > 0: the
\* quotient is taken to 56 bits or more and a last bit records whether the
\* division left a remainder.
RoundQuotient(sign, N, D, E) ==
    IF N = <<>> \/ sign = 0 THEN FZero
    ELSE With(Significand + 3 + BitLen(D) - BitLen(N), LAMBDA k :
         With(IF k >= 0 THEN D ELSE ShiftLeft(D, -k), LAMBDA d :
         With(LongDiv([quot |-> <<>>,
                       rem |-> IF k >= 0 THEN ShiftLeft(N, k) ELSE N],
                      d, Significand + 4), LAMBDA qr :
             RoundDyadic(sign,
                         BigAdd(ShiftLeft(qr.quot, 1),
                                IF qr.rem = <<>> THEN <<>> ELSE <<1>>),
                         E - k - 1))))

Sign(i) == IF i < 0 THEN -1 ELSE IF i > 0 THEN 1 ELSE 0

\* float(n): an integer below 2^31 is exact.
FromInt(n) == RoundDyadic(Sign(n), BigOf(Abs(n)), 0)
\* The float a decimal literal n / d (d a power of ten) is read as.
FromDecimal(n, d) == RoundQuotient(Sign(n), BigOf(Abs(n)), BigOf(d), 0)

FNeg(x) == [x EXCEPT !.sign = -x.sign]

\* The sum of two floats that are not zero.
AddAligned(x, y, lo) ==
    With(ShiftLeft(x.m, x.e - lo), LAMBDA X :
    With(ShiftLeft(y.m, y.e - lo), LAMBDA Y :
    With(BigCmp(X, Y), LAMBDA c :
        IF x.sign = y.sign THEN RoundDyadic(x.sign, BigAdd(X, Y), lo)
        ELSE IF c = 0 THEN FZero
        ELSE IF c > 0 THEN RoundDyadic(x.sign, BigSub(X, Y), lo)
        ELSE RoundDyadic(y.sign, BigSub(Y, X), lo))))

FAdd(a, b) ==
    With(a, LAMBDA x : With(b, LAMBDA y :
        IF x.sign = 0 THEN y
        ELSE IF y.sign = 0 THEN x
        ELSE AddAligned(x, y, IF x.e < y.e THEN x.e ELSE y.e)))
FSub(a, b) == FAdd(a, FNeg(b))
FMul(a, b) ==
    With(a, LAMBDA x : With(b, LAMBDA y :
        RoundDyadic(x.sign * y.sign, BigMul(x.m, y.m), x.e + y.e)))
\* a / b for b # 0.
FDiv(a, b) ==
    With(a, LAMBDA x : With(b, LAMBDA y :
        RoundQuotient(x.sign * y.sign, x.m, y.m, x.e - y.e)))
\* max(0, x): Python keeps its first argument unless the second is greater.
FMaxZero(a) == With(a, LAMBDA x : IF x.sign > 0 THEN x ELSE FZero)

(***************************************************************************)
(* engine.py and process_prop in binary64: the same three steps computed   *)
(* as the interpreter computes them, for odds given in hundredths and an   *)
(* edge given in ten-thousandths.                                          *)
(***************************************************************************)
float_implied_probability(decimal_odds) == FDiv(FromInt(1), decimal_odds)

float_true_win_pct(implied_prob, edge_pct) == FAdd(implied_prob, edge_pct)

float_kelly_stake(win_prob, decimal_odds) ==
    With(FSub(decimal_odds, FromInt(1)), LAMBDA b :
    With(win_prob, LAMBDA p :
    With(FSub(FromInt(1), p), LAMBDA q :
        IF b.sign <= 0 THEN FZero
        ELSE With(FDiv(FSub(FMul(b, p), q), b), LAMBDA full_kelly :
             With(FMul(full_kelly, FromDecimal(RISK_MULTIPLIER, 100)),
                  LAMBDA fractional_kelly : FMaxZero(fractional_kelly))))))

\* process_prop, steps 3 and after: kelly and kelly_pct = kelly * 100.
float_kelly_pct(odds, edge) ==
    With(float_implied_probability(odds), LAMBDA implied_prob :
    With(float_true_win_pct(implied_prob, edge), LAMBDA true_win :
    With(float_kelly_stake(true_win, odds), LAMBDA kelly :
        FMul(kelly, FromInt(100)))))

(***************************************************************************)
(* Python values and their JSON text.  A value is tagged with its Python   *)
(* type; json.dump writes lists and tuples as arrays and dicts as objects, *)
(* json.load reads arrays as lists and objects as dicts.                   *)
(***************************************************************************)
PyList(items) == [py |-> "list", v |-> items]
PyDict(members) == [py |-> "dict", v |-> members]
EmptyDict == [py |-> "dict", v |-> [empty |-> TRUE]]
EmptyList == [py |-> "list", v |-> <<>>]

\* Python truthiness of a payload: None, [] and {} are falsy.
Truthy(x) ==
    IF x = None THEN FALSE
    ELSE IF x.py = "dict" THEN x # EmptyDict
    ELSE x.v # <<>>

JsonDump(x) ==
    CASE x.py = "list" -> [js |-> "array", v |-> x.v]
      [] x.py = "tuple" -> [js |-> "array", v |-> x.v]
      [] x.py = "dict" -> [js |-> "object", v |-> x.v]

JsonLoad(j) ==
    CASE j.js = "array" -> [py |-> "list", v |-> j.v]
      [] j.js = "object" -> [py |-> "dict", v |-> j.v]

\* A cache file: absent from disk, or a JSON object key -> {timestamp, data}.
NoFile == [exists |-> FALSE]
FileOf(entries) == [exists |-> TRUE, entries |-> entries]
NoEntries == [k \in {} |-> None]

(***************************************************************************)
(* analyst.py: PropAnalyst                                                 *)
(***************************************************************************)
ANALYSIS_CACHE_MINUTES == 60

\* A response text is a sequence of tokens: "{" and "}" are the braces, "f"
\* is the text of well-formed members (their values are given apart, as the
\* record `fields`), "w" is any other text.
Missing == "<missing>"
NumEdge(i) == [t |-> "num", v |-> TenThousandths(i)]
StrEdge == [t |-> "str"]
NoEdge == [t |-> "missing"]
NoFields == [edge_percentage |-> NoEdge, rating |-> Missing,
             confidence |-> Missing, reasoning |-> Missing]

Find(text, tok) ==
    IF \E i \in 1..Len(text) : text[i] = tok
    THEN CHOOSE i \in 1..Len(text) :
            text[i] = tok /\ \A j \in 1..(i - 1) : text[j] # tok
    ELSE 0

RFind(text, tok) ==
    IF \E i \in 1..Len(text) : text[i] = tok
    THEN CHOOSE i \in 1..Len(text) :
            text[i] = tok /\ \A j \in (i + 1)..Len(text) : text[j] # tok
    ELSE 0

_clean_json(text) ==
    LET start == Find(text, "{")
        end == RFind(text, "}")
    IN  IF start = 0 THEN <<"{", "}">>
        ELSE IF end = 0 THEN <<"{", "}">>
        ELSE SubSeq(text, start, end)

\* json.loads of a token text whose members are `fields`: a dict, or a
\* JSONDecodeError.
json_loads(json_str, fields) ==
    IF json_str = <<"{", "}">> THEN [ok |-> TRUE, data |-> NoFields]
    ELSE IF json_str = <<"{", "f", "}">> THEN [ok |-> TRUE, data |-> fields]
    ELSE [ok |-> FALSE]

RatingTable(edge) ==
    IF RLe(TenThousandths(1000), edge) THEN "SMASH"
    ELSE IF RLe(TenThousandths(300), edge) THEN "LEAN"
    ELSE IF RLe(RZero, edge) THEN "PASS"
    ELSE "FADE"

\* _simulate_analysis with random.choice having drawn `edge`.
SimEdges == {1200, 800, 500, 200, 100, -200, -500}

_simulate_analysis(e) ==
    LET edge == TenThousandths(e)
    IN  [edge_percentage |-> edge,
         rating |-> RatingTable(edge),
         confidence |-> IF RLe(TenThousandths(1000), edge) THEN "High"
                        ELSE IF RLe(TenThousandths(300), edge) THEN "Medium"
                        ELSE IF RLe(RZero, edge) THEN "Low"
                        ELSE "High",
         reasoning |-> "Simulated analysis"]

Get(value, default) == IF value = Missing THEN default ELSE value

NormalizeNoClamp(raw) ==
    IF RLt(ROne, raw) THEN RDiv(raw, Hundredths(10000)) ELSE raw

\* lines 164-169: a value above 1 is a percentage; then clamp to [-0.2, 0.3].
NormalizeEdge(raw) ==
    LET edge == IF RLt(ROne, raw) THEN RDiv(raw, Hundredths(10000)) ELSE raw
    IN  RMax(TenThousandths(-2000), RMin(TenThousandths(3000), edge))

RatingAsLabelled(label, edge) == label

\* lines 171-180: a label of the four is kept, any other is recomputed.
RatingOf(label, edge) ==
    IF label \in {"SMASH", "LEAN", "PASS", "FADE"} THEN label
    ELSE RatingTable(edge)

\* What random.choice may make _simulate_analysis return.
Simulated == {_simulate_analysis(e) : e \in SimEdges}

\* _parse_response, as the set of its possible return values (one, unless the
\* fallback draws at random).  path: "simulated" when _simulate_analysis built
\* the result, "parsed" when the decoded dict did.
Fallback == {[path |-> "simulated", result |-> r] : r \in Simulated}

_parse_response(response, fields) ==
    IF response = <<>> THEN Fallback
    ELSE LET loaded == json_loads(_clean_json(response), fields)
         IN  IF ~loaded.ok THEN Fallback
             ELSE LET data == loaded.data
                      raw == IF data.edge_percentage.t = "missing"
                             THEN NumEdge(0) ELSE data.edge_percentage
                  IN  IF raw.t # "num" THEN Fallback
                      ELSE LET edge == NormalizeEdge(raw.v)
                           IN  {[path |-> "parsed",
                                 result |->
                                   [edge_percentage |-> edge,
                                    rating |-> RatingOf(Get(data.rating, "PASS"), edge),
                                    confidence |-> Get(data.confidence, "Medium"),
                                    reasoning |-> Get(data.reasoning, "No reasoning")]]}

\* "{odds:.2f}": the price rounded to hundredths.
Format2f(odds) == (2 * odds[1] * 100 + odds[2]) \div (2 * odds[2])

_get_cache_key(player, stat, line, odds) == <<player, stat, line, Format2f(odds)>>

_load_cached_analysis(file, cache_key, ttl) ==
    IF ~file.exists THEN EmptyDict
    ELSE IF cache_key \notin DOMAIN file.entries THEN EmptyDict
    ELSE LET entry == file.entries[cache_key]
         IN  IF now - entry.timestamp < ttl
             THEN JsonLoad(entry.data)
             ELSE EmptyDict

_save_cached_analysis(file, cache_key, data) ==
    LET cache == IF file.exists THEN file.entries ELSE NoEntries
    IN  FileOf([k \in DOMAIN cache \cup {cache_key} |->
                  IF k = cache_key
                  THEN [timestamp |-> now, data |-> JsonDump(data)]
                  ELSE cache[k]])

\* analyze_prop, as the set of its possible outcomes: the value returned (or
\* the exception raised) and the cache file afterwards.  response is what
\* _make_request returned (<<>> for a transport failure or empty content).
analyze_prop(player, stat, line, odds, side, response, fields) ==
    LET cache_key == Append(_get_cache_key(player, stat, line, odds), side)
        cached == _load_cached_analysis(analysis_cache, cache_key,
                                        ANALYSIS_CACHE_MINUTES)
    IN  IF Truthy(cached)
        THEN {[status |-> "ok", path |-> "cache", result |-> cached.v,
               file |-> analysis_cache]}
        ELSE IF ~enabled
        THEN {[status |-> "ok", path |-> "disabled", result |-> r,
               file |-> analysis_cache] : r \in Simulated}
        ELSE IF ImpliedRaises(odds)
        THEN {[status |-> "raise", path |-> "estimator", result |-> None,
               file |-> analysis_cache]}
        ELSE {[status |-> "ok", path |-> parsed.path, result |-> parsed.result,
               file |-> _save_cached_analysis(analysis_cache, cache_key,
                                              PyDict(parsed.result))] :
                 parsed \in _parse_response(response, fields)}

(***************************************************************************)
(* fetcher.py: OddsFetcher, the cache of schedule and props.               *)
(***************************************************************************)
SCHEDULE_CACHE_MINUTES == 360
PROPS_CACHE_MINUTES == 15

LoadCacheInclusive(file, cache_key, cache_minutes) ==
    IF ~file.exists THEN None
    ELSE IF cache_key \notin DOMAIN file.entries THEN None
    ELSE LET entry == file.entries[cache_key]
         IN  IF now - entry.timestamp <= cache_minutes
             THEN JsonLoad(entry.data)
             ELSE None

_load_cache(file, cache_key, cache_minutes) ==
    IF ~file.exists THEN None
    ELSE IF cache_key \notin DOMAIN file.entries THEN None
    ELSE LET entry == file.entries[cache_key]
         IN  IF now - entry.timestamp < cache_minutes
             THEN JsonLoad(entry.data)
             ELSE None

\* A save that writes the new entry alone, without merging it into the file.
SaveCacheAlone(file, data, cache_key) ==
    FileOf([k \in {cache_key} |-> [timestamp |-> now, data |-> JsonDump(data)]])

_save_cache(file, data, cache_key) ==
    LET cache == IF file.exists THEN file.entries ELSE NoEntries
    IN  FileOf([k \in DOMAIN cache \cup {cache_key} |->
                  IF k = cache_key
                  THEN [timestamp |-> now, data |-> JsonDump(data)]
                  ELSE cache[k]])

\* One quote of the provider; in this part odds are integers, in hundredths.
Quote(player, market, stat_type, side, line, book, odds) ==
    [player |-> player, market |-> market, stat_type |-> stat_type,
     side |-> side, line |-> line, book |-> book, odds |-> odds]

\* What requests.get(...).json() gave: a JSON array, a JSON object with its
\* members, a value of another type, or an exception (transport failure,
\* HTTP error status, undecodable body).
RaiseAnswer == [kind |-> "raise"]
ListAnswer(items) == [kind |-> "list", items |-> items]
DictAnswer(members) == [kind |-> "dict", members |-> members]
OtherAnswer == [kind |-> "other"]

_handle_api_response(data) ==
    IF data.kind = "list" THEN data
    ELSE IF data.kind = "dict"
    THEN IF "message" \in DOMAIN data.members THEN None
         ELSE IF "data" \in DOMAIN data.members THEN data.members.data
         ELSE IF "events" \in DOMAIN data.members THEN data.members.events
         ELSE data
    ELSE None

_get_demo_schedule == PyList(<< [id |-> "demo1"], [id |-> "demo2"] >>)

_get_demo_props ==
    PyList(<< Quote("LeBron James", "PTS", "player_points", Missing, 285, "DraftKings", 191),
              Quote("LeBron James", "PTS", "player_points", Missing, 285, "Bet365", 195),
              Quote("Jayson Tatum", "PTS", "player_points", Missing, 265, "DraftKings", 191),
              Quote("Jayson Tatum", "REB", "player_rebounds", Missing, 85, "DraftKings", 191) >>)

\* One outcome of a bookmaker's market, as the provider sends it; the price
\* member may be missing.
Outcome(book, market_key, name, description, point, price) ==
    [book |-> book, market_key |-> market_key, name |-> name,
     description |-> description, point |-> point, price |-> price]
Unpriced(book, market_key, name, description, point) ==
    [book |-> book, market_key |-> market_key, name |-> name,
     description |-> description, point |-> point]

\* {'player_points': 'PTS', ...}.get(market_key, market_key.upper())
MarketDisplay(market_key) ==
    CASE market_key = "player_points" -> "PTS"
      [] market_key = "player_rebounds" -> "REB"
      [] market_key = "player_assists" -> "AST"
      [] OTHER -> market_key

\* _parse_props_with_books: one prop per outcome of every market of every
\* bookmaker of the event; none when the object has no bookmakers.
_parse_props_with_books(event_data) ==
    IF "bookmakers" \notin DOMAIN event_data THEN <<>>
    ELSE [i \in 1..Len(event_data.bookmakers) |->
            LET outcome == event_data.bookmakers[i]
            IN  Quote(outcome.description, MarketDisplay(outcome.market_key),
                      outcome.market_key,
                      IF outcome.name = "Over" THEN "Over" ELSE "Under",
                      outcome.point, outcome.book,
                      IF "price" \in DOMAIN outcome THEN outcome.price ELSE 0)]

FetchOutcome(path, result, file) == [path |-> path, result |-> result, file |-> file]

\* get_schedule: the value returned, the path taken ("cache", "demo" without
\* a request, "failed" for the demo data after a request, "provider") and the
\* cache file afterwards.
get_schedule(file, has_key, data) ==
    LET cached == _load_cache(file, "schedule", SCHEDULE_CACHE_MINUTES)
        handled_data == _handle_api_response(data)
        listed == IF handled_data.kind = "dict"
                  THEN PyList(<<handled_data.members>>)
                  ELSE PyList(handled_data.items)
    IN  IF Truthy(cached) THEN FetchOutcome("cache", cached, file)
        ELSE IF ~has_key THEN FetchOutcome("demo", _get_demo_schedule, file)
        ELSE IF data.kind = "raise"
        THEN FetchOutcome("failed", _get_demo_schedule, file)
        ELSE IF handled_data = None
        THEN FetchOutcome("failed", _get_demo_schedule, file)
        ELSE FetchOutcome("provider", listed, _save_cache(file, listed, "schedule"))

PropsKey(game_id) == IF game_id = "demo1" THEN "props_demo1" ELSE "props_g1"
IsDemoGame(game_id) == game_id = "demo1"

GetPropsIfNotNone(file, has_key, game_id, data) ==
    LET cache_key == PropsKey(game_id)
        cached == _load_cache(file, cache_key, PROPS_CACHE_MINUTES)
        handled_data == _handle_api_response(data)
        event == IF handled_data.kind = "list"
                 THEN handled_data.items[1] ELSE handled_data.members
        parsed == PyList(_parse_props_with_books(event))
    IN  IF cached # None THEN FetchOutcome("cache", cached, file)
        ELSE IF ~has_key \/ IsDemoGame(game_id)
        THEN FetchOutcome("demo", _get_demo_props, file)
        ELSE IF data.kind = "raise"
        THEN FetchOutcome("failed", _get_demo_props, file)
        ELSE IF handled_data = None
        THEN FetchOutcome("failed", _get_demo_props, file)
        ELSE IF handled_data.kind = "list" /\ handled_data.items = <<>>
        THEN FetchOutcome("failed", _get_demo_props, file)
        ELSE FetchOutcome("provider", parsed, _save_cache(file, parsed, cache_key))

\* get_props_for_game: as get_schedule.
get_props_for_game(file, has_key, game_id, data) ==
    LET cache_key == PropsKey(game_id)
        cached == _load_cache(file, cache_key, PROPS_CACHE_MINUTES)
        handled_data == _handle_api_response(data)
        event == IF handled_data.kind = "list"
                 THEN handled_data.items[1] ELSE handled_data.members
        parsed == PyList(_parse_props_with_books(event))
    IN  IF Truthy(cached) THEN FetchOutcome("cache", cached, file)
        ELSE IF ~has_key \/ IsDemoGame(game_id)
        THEN FetchOutcome("demo", _get_demo_props, file)
        ELSE IF data.kind = "raise"
        THEN FetchOutcome("failed", _get_demo_props, file)
        ELSE IF handled_data = None
        THEN FetchOutcome("failed", _get_demo_props, file)
        ELSE IF handled_data.kind = "list" /\ handled_data.items = <<>>
        THEN FetchOutcome("failed", _get_demo_props, file)
        ELSE FetchOutcome("provider", parsed, _save_cache(file, parsed, cache_key))

(***************************************************************************)
(* researcher.py: TrendResearcher, the cache of trends.                    *)
(***************************************************************************)
TRENDS_CACHE_MINUTES == 60

\* TrendResearcher._get_cache_key: f"{player}_{stat}_{side}_{line}"
trends_cache_key(player, stat, line, side) == <<player, stat, side, line>>

\* A file between open(..., 'w'), which empties it, and the end of json.dump:
\* json.load of it raises.
Truncated == [exists |-> TRUE, truncated |-> TRUE]
Decodable(file) == file.exists /\ "entries" \in DOMAIN file

\* cache[cache_key] = {'timestamp': now, 'data': data}
WithEntry(cache, cache_key, data) ==
    [k \in DOMAIN cache \cup {cache_key} |->
        IF k = cache_key
        THEN [timestamp |-> now, data |-> JsonDump(data)]
        ELSE cache[k]]

\* The researcher's answer as the words of its text: numbers and the words
\* the parser looks for.  <<>> stands for None and for the empty string.
Num(n) == [t |-> "num", n |-> n, w |-> ""]
Word(w) == [t |-> "word", n |-> 0, w |-> w]

\* The first k with a number at k followed by `word`, 0 when there is none:
\* re.search(r'(\d+)\s*out\s*of\s*10') and re.search(r'(\d+)%').
FirstNumberBefore(response, word) ==
    LET hits == {k \in 1..(Len(response) - 1) :
                    response[k].t = "num" /\ response[k + 1] = Word(word)}
    IN  IF hits = {} THEN 0 ELSE CHOOSE k \in hits : \A l \in hits : k <= l

\* any(word in response.lower() for word in words): the substrings the
\* model's words contain.
Substrings(w) ==
    CASE w = "out of 10" -> {"out"}
      [] w = "hot" -> {"hot"}
      [] w = "cold" -> {"cold"}
      [] w = "injury" -> {"injury"}
      [] OTHER -> {}
AnyIn(words, response) ==
    \E k \in 1..Len(response) : Substrings(response[k].w) \cap words # {}

TrendDict(player, stat, line, hit_rate, trend_direction, has_injury, raw_notes) ==
    [player |-> player, stat |-> stat, line |-> line,
     last_10_hit_rate |-> hit_rate, trend_direction |-> trend_direction,
     has_injury_concern |-> has_injury, raw_notes |-> raw_notes]

_parse_trend_response(response, player, stat, line) ==
    LET out_of_10 == FirstNumberBefore(response, "out of 10")
        pct == FirstNumberBefore(response, "%")
        hit_rate == IF out_of_10 # 0 THEN Rat(response[out_of_10].n, 10)
                    ELSE IF pct # 0 THEN Rat(response[pct].n, 100)
                    ELSE Rat(1, 2)
    IN  TrendDict(player, stat, line, hit_rate,
                  IF AnyIn({"improving", "hot", "up"}, response) THEN "Improving"
                  ELSE IF AnyIn({"declining", "cold", "down", "struggling"}, response)
                  THEN "Declining" ELSE "Stable",
                  AnyIn({"injury", "injured", "doubtful", "out"}, response),
                  response)

\* _simulate_trends, as the set of what the seeded random draws may give.
_simulate_trends(player, stat, line, side) ==
    {TrendDict(player, stat, line, Rat(h, 10), trend, has_injury, <<Word("Simulated")>>) :
        h \in {4, 5, 6, 7, 8},
        trend \in {"Improving", "Stable", "Declining"},
        has_injury \in BOOLEAN}

_load_cached_trends(file, cache_key) ==
    IF ~file.exists THEN None
    ELSE IF ~Decodable(file) THEN None
    ELSE IF cache_key \notin DOMAIN file.entries THEN None
    ELSE LET entry == file.entries[cache_key]
         IN  IF now - entry.timestamp < TRENDS_CACHE_MINUTES
             THEN JsonLoad(entry.data)
             ELSE None

_save_cached_trends(file, cache_key, data) ==
    FileOf(WithEntry(IF Decodable(file) THEN file.entries ELSE NoEntries,
                     cache_key, data))

TrendOutcome(path, result, file) == [path |-> path, result |-> result, file |-> file]

\* get_player_trends, as the set of its possible outcomes: the dict returned,
\* the path taken and the cache file afterwards.  response is what
\* _make_request returned.
get_player_trends(file, is_enabled, player, stat, line, side, response) ==
    LET cache_key == trends_cache_key(player, stat, line, side)
        cached == _load_cached_trends(file, cache_key)
        result == _parse_trend_response(response, player, stat, line)
    IN  IF Truthy(cached) THEN {TrendOutcome("cache", cached.v, file)}
        ELSE IF ~is_enabled
        THEN {TrendOutcome("disabled", r, file) :
                 r \in _simulate_trends(player, stat, line, side)}
        ELSE IF response # <<>>
        THEN {TrendOutcome("parsed", result,
                           _save_cached_trends(file, cache_key, PyDict(result)))}
        ELSE {TrendOutcome("simulated", r, file) :
                 r \in _simulate_trends(player, stat, line, side)}

(***************************************************************************)
(* prop_gem.py: process_prop, the batch workflow's unit of work.           *)
(***************************************************************************)
\* What the estimator exchange looked like, for the record of a call: the
\* response text and the dict decoded from it when a request was made.
NoRequest == [made |-> FALSE]
RequestOf(response, fields) ==
    [made |-> TRUE, response |-> response,
     data |-> LET loaded == json_loads(_clean_json(response), fields)
              IN  IF response # <<>> /\ loaded.ok THEN loaded.data ELSE NoFields]

CallRecord(odds, out, response, fields) ==
    [odds |-> odds, status |-> out.status, path |-> out.path,
     result |-> out.result,
     request |-> IF out.path \in {"parsed", "simulated"}
                 THEN RequestOf(response, fields) ELSE NoRequest]

\* process_prop's return value: a record, or None when anything raised.
process_prop(odds, out) ==
    IF out.status = "raise" THEN None
    ELSE IF ImpliedRaises(odds) THEN None
    ELSE LET implied_prob == calculate_implied_probability(odds)
             true_win == calculate_true_win_pct(implied_prob,
                                                out.result.edge_percentage)
             kelly == calculate_kelly_stake(true_win, odds)
         IN  [odds |-> odds,
              edge |-> out.result.edge_percentage,
              rating |-> out.result.rating,
              implied_prob |-> implied_prob,
              true_win |-> true_win,
              kelly_pct |-> RMul(kelly, Rat(100, 1))]

\* find_better_odds, line 79: market_to_stat.get(market, '')
market_to_stat(market) ==
    CASE market = "PTS" -> "player_points"
      [] market = "REB" -> "player_rebounds"
      [] market = "AST" -> "player_assists"
      [] OTHER -> ""

\* find_better_odds, lines 84-87; lines are in tenths, so 0.5 is 5.
IsAlternative(p, current_prop) ==
    /\ p.player = current_prop.player
    /\ p.stat_type = market_to_stat(current_prop.market)
    /\ p.odds > current_prop.odds
    /\ Abs(p.line - current_prop.line) < 5

FindBetterLast(all_props, current_prop) ==
    LET RECURSIVE Better(_)
        Better(n) ==
            IF n = 0 THEN None
            ELSE LET before == Better(n - 1)
                     p == all_props[n]
                 IN  IF IsAlternative(p, current_prop)
                        /\ (before = None \/ p.odds >= before.odds)
                     THEN p ELSE before
    IN  Better(Len(all_props))

\* find_better_odds: `better` after the loop over props, None when no prop
\* qualified.
find_better_odds(all_props, current_prop) ==
    LET RECURSIVE Better(_)
        Better(n) ==
            IF n = 0 THEN None
            ELSE LET before == Better(n - 1)
                     p == all_props[n]
                 IN  IF IsAlternative(p, current_prop)
                        /\ (before = None \/ p.odds > before.odds)
                     THEN p ELSE before
    IN  Better(Len(all_props))

\* display_results, line 141: results.sort(key=edge, reverse=True), descending
\* and stable.  x goes after every element whose edge is >= its own.
InsertByEdgeFirst(sorted, x) ==
    LET k == Cardinality({i \in 1..Len(sorted) : RLt(x.edge, sorted[i].edge)})
    IN  SubSeq(sorted, 1, k) \o <<x>> \o SubSeq(sorted, k + 1, Len(sorted))

InsertByEdge(sorted, x) ==
    LET k == Cardinality({i \in 1..Len(sorted) : RLe(x.edge, sorted[i].edge)})
    IN  SubSeq(sorted, 1, k) \o <<x>> \o SubSeq(sorted, k + 1, Len(sorted))

RECURSIVE SortByEdge(_)
SortByEdge(seq) ==
    IF seq = <<>> THEN <<>>
    ELSE InsertByEdge(SortByEdge(SubSeq(seq, 1, Len(seq) - 1)), seq[Len(seq)])

NotPass(r) == r.rating # "PASS"
IsSmash(r) == r.rating = "SMASH"
IsLean(r) == r.rating = "LEAN"

\* display_results: nothing printed for an empty list; otherwise the list
\* sorted in place, the rows printed, the TOTAL line's three counts and the
\* TOP PLAY line (None when it is not printed).
display_results(result_list) ==
    IF result_list = <<>>
    THEN [printed |-> FALSE, before |-> result_list, results |-> result_list]
    ELSE LET sorted == SortByEdge(result_list)
         IN  [printed |-> TRUE, before |-> result_list, results |-> sorted,
              rows |-> SelectSeq(sorted, NotPass),
              smash_count |-> Len(SelectSeq(sorted, IsSmash)),
              lean_count |-> Len(SelectSeq(sorted, IsLean)),
              total_analyzed |-> Len(sorted),
              top_play |-> IF sorted[1].rating # "PASS" THEN sorted[1] ELSE None]

\* main, lines 295-307: the lines written when the user answers 'y'.
saved_lines(result_list) == SelectSeq(result_list, NotPass)

(***************************************************************************)
(* app.py: run_analysis, the interactive workflow's line shopping.         *)
(***************************************************************************)
TOP_N == 30
BETTER_SHOWN == 3

\* prop.get('side', 'Over')
SideOf(prop) == Get(prop.side, "Over")

\* f"{player}_{market}_{side}_{line}"
OutcomeKey(prop) == <<prop.player, prop.market, SideOf(prop), prop.line>>

Min(a, b) == IF a < b THEN a ELSE b
Head_N(seq, n) == SubSeq(seq, 1, Min(n, Len(seq)))

\* list.sort(key=odds, reverse=True): descending and stable.  x goes after
\* every element whose odds are >= its own.
InsertBeforeEquals(sorted, x) ==
    LET k == Cardinality({i \in 1..Len(sorted) : x.odds < sorted[i].odds})
    IN  SubSeq(sorted, 1, k) \o <<x>> \o SubSeq(sorted, k + 1, Len(sorted))

InsertDesc(sorted, x) ==
    LET k == Cardinality({i \in 1..Len(sorted) : x.odds <= sorted[i].odds})
    IN  SubSeq(sorted, 1, k) \o <<x>> \o SubSeq(sorted, k + 1, Len(sorted))

RECURSIVE SortDesc(_)
SortDesc(seq) ==
    IF seq = <<>> THEN <<>>
    ELSE InsertDesc(SortDesc(SubSeq(seq, 1, Len(seq) - 1)), seq[Len(seq)])

\* lines 159-172: key -> the (book, odds) of every quote of the key, in input
\* order, then each list sorted best first.
all_odds_lookup(quotes) ==
    [key \in {OutcomeKey(quotes[i]) : i \in 1..Len(quotes)} |->
        SortDesc(LET Entry(q) == [book |-> q.book, odds |-> q.odds]
                     RECURSIVE Collect(_)
                     Collect(n) ==
                         IF n = 0 THEN <<>>
                         ELSE IF OutcomeKey(quotes[n]) = key
                         THEN Append(Collect(n - 1), Entry(quotes[n]))
                         ELSE Collect(n - 1)
                 IN  Collect(Len(quotes)))]

\* lines 175-186: the selected book's props, or the first prop of each key.
props_to_use(quotes, selected_book) ==
    IF selected_book # "All Books"
    THEN SelectSeq(quotes, LAMBDA q : q.book = selected_book)
    ELSE LET RECURSIVE Dedup(_)
             Dedup(n) ==
                 IF n = 0 THEN <<>>
                 ELSE IF \E j \in 1..(n - 1) :
                            OutcomeKey(quotes[j]) = OutcomeKey(quotes[n])
                 THEN Dedup(n - 1)
                 ELSE Append(Dedup(n - 1), quotes[n])
         IN  Dedup(Len(quotes))

BetterOrEqual(book_odds_list, prop) ==
    SelectSeq(book_odds_list,
              LAMBDA item : prop.odds <= item.odds /\ item.book # prop.book)

\* lines 221-224: the entries that beat the prop's price at another book.
better_lines(book_odds_list, prop) ==
    SelectSeq(book_odds_list,
              LAMBDA item : prop.odds < item.odds /\ item.book # prop.book)

\* f"{book}: {odds:.2f}"
BetterLineText(item) == <<item.book, Format2f(Hundredths(item.odds))>>

\* line 225: the first three joined with " | ", or "-" when there is none.
better_lines_str(better) ==
    IF better = <<>> THEN <<"-">>
    ELSE LET shown == Head_N(better, BETTER_SHOWN)
         IN  [i \in 1..Len(shown) |-> BetterLineText(shown[i])]

\* line 228: the best price of the key, or the prop's own.
best_odds(book_odds_list, prop) ==
    IF book_odds_list # <<>> THEN book_odds_list[1].odds ELSE prop.odds

\* lines 216-254 for one prop, given the list looked up for its key: the row
\* shown, and the odds analyze_prop gets.
RowOf(book_odds_list, prop) ==
    [player |-> prop.player, market |-> prop.market, side |-> SideOf(prop),
     line |-> prop.line, odds |-> prop.odds, book |-> prop.book,
     better_lines |-> better_lines_str(better_lines(book_odds_list, prop)),
     analyzed_odds |-> best_odds(book_odds_list, prop)]

\* lines 213-214: all_odds_lookup.get(key, [])
ShopRow(lookup, prop) ==
    RowOf(IF OutcomeKey(prop) \in DOMAIN lookup
          THEN lookup[OutcomeKey(prop)] ELSE <<>>, prop)

\* lines 201-257: the loop over props_to_analyze.
Rows(selected_book, lookup, props_to_analyze) ==
    [mode |-> "interactive", selected_book |-> selected_book,
     lookup |-> lookup,
     rows |-> [i \in 1..Len(props_to_analyze) |->
                 ShopRow(lookup, props_to_analyze[i])]]

NoRows(mode, selected_book, lookup) ==
    [mode |-> mode, selected_book |-> selected_book, lookup |-> lookup,
     rows |-> <<>>]

run_analysis(quotes, selected_book) ==
    IF quotes = <<>> \/ props_to_use(quotes, selected_book) = <<>>
    THEN NoRows("interactive", selected_book, all_odds_lookup(quotes))
    ELSE Rows(selected_book, all_odds_lookup(quotes),
              Head_N(SortDesc(props_to_use(quotes, selected_book)), TOP_N))

\* get_books_from_props
get_books_from_props(quotes) == {quotes[i].book : i \in 1..Len(quotes)}

\* main, line 360: rating_order.get(x['rating'], 3)
rating_order(rating) ==
    CASE rating = "SMASH" -> 0
      [] rating = "LEAN" -> 1
      [] rating = "PASS" -> 2
      [] rating = "FADE" -> 3
      [] OTHER -> 3

\* main, line 361: results.sort(key=...), ascending and stable.  x goes after
\* every element whose priority is <= its own.
InsertByRatingFirst(sorted, x) ==
    LET k == Cardinality({i \in 1..Len(sorted) :
                 rating_order(sorted[i].rating) < rating_order(x.rating)})
    IN  SubSeq(sorted, 1, k) \o <<x>> \o SubSeq(sorted, k + 1, Len(sorted))

InsertByRating(sorted, x) ==
    LET k == Cardinality({i \in 1..Len(sorted) :
                 rating_order(sorted[i].rating) <= rating_order(x.rating)})
    IN  SubSeq(sorted, 1, k) \o <<x>> \o SubSeq(sorted, k + 1, Len(sorted))

RECURSIVE SortByRating(_)
SortByRating(seq) ==
    IF seq = <<>> THEN <<>>
    ELSE InsertByRating(SortByRating(SubSeq(seq, 1, Len(seq) - 1)), seq[Len(seq)])

\* main, line 394: [r for r in results if r['rating'] == 'SMASH']
SmashOrLean(result_list) ==
    SelectSeq(result_list, LAMBDA r : r.rating \in {"SMASH", "LEAN"})

smash_plays(result_list) == SelectSeq(result_list, IsSmash)

\* main, lines 357-405: nothing is shown for an empty list; otherwise the
\* list sorted in place, the metrics, the table and the SMASH highlights.
main_results(result_list) ==
    IF result_list = <<>>
    THEN [shown |-> FALSE, before |-> result_list, results |-> result_list]
    ELSE LET ranked == SortByRating(result_list)
         IN  [shown |-> TRUE, before |-> result_list, results |-> ranked,
              analyzed |-> Len(ranked),
              smash_count |-> Len(SelectSeq(ranked, IsSmash)),
              lean_count |-> Len(SelectSeq(ranked, IsLean)),
              table |-> ranked,
              smash_plays |-> smash_plays(ranked)]

(***************************************************************************)
(* prop_gem.py: main, the batch workflow's book filter and de-duplication. *)
(***************************************************************************)
BookFilters == {"DraftKings", "FanDuel", "Bet365"}
NoFilter == "<none>"

UniqueKeepLast(quotes) ==
    LET PairOf(q) == <<q.player, q.stat_type>>
        RECURSIVE Seen(_)
        \* the dict `seen` after n props: a sequence of (key, prop) in
        \* insertion order
        Seen(n) ==
            IF n = 0 THEN <<>>
            ELSE LET before == Seen(n - 1)
                     q == quotes[n]
                     at == {i \in 1..Len(before) : PairOf(before[i]) = PairOf(q)}
                 IN  IF at = {} THEN Append(before, q)
                     ELSE LET i == CHOOSE i \in at : TRUE
                          IN  IF before[i].odds <= q.odds
                              THEN [before EXCEPT ![i] = q]
                              ELSE before
    IN  Seen(Len(quotes))

\* lines 260-267: one prop per (player, stat_type), the best odds of the group
\* (the first on ties), in the order the pairs first appear.
unique_props(quotes) ==
    LET PairOf(q) == <<q.player, q.stat_type>>
        RECURSIVE Seen(_)
        \* the dict `seen` after n props: a sequence of (key, prop) in
        \* insertion order
        Seen(n) ==
            IF n = 0 THEN <<>>
            ELSE LET before == Seen(n - 1)
                     q == quotes[n]
                     at == {i \in 1..Len(before) : PairOf(before[i]) = PairOf(q)}
                 IN  IF at = {} THEN Append(before, q)
                     ELSE LET i == CHOOSE i \in at : TRUE
                          IN  IF before[i].odds < q.odds
                              THEN [before EXCEPT ![i] = q]
                              ELSE before
    IN  Seen(Len(quotes))

BatchRows(book_filter, unique) ==
    [mode |-> "batch", selected_book |-> book_filter,
     lookup |-> [k \in {} |-> <<>>],
     rows |-> [i \in 1..Len(unique) |->
                 [player |-> unique[i].player,
                  market |-> unique[i].market,
                  side |-> SideOf(unique[i]),
                  line |-> unique[i].line,
                  odds |-> unique[i].odds,
                  book |-> unique[i].book,
                  better_lines |-> <<"-">>,
                  analyzed_odds |-> unique[i].odds]]]

\* lines 244-293: the props submitted to process_prop, each with the odds
\* process_prop passes to get_analysis (line 107).
batch_main(quotes, book_filter) ==
    IF quotes = <<>> THEN NoRows("batch", book_filter, [k \in {} |-> <<>>])
    ELSE BatchRows(book_filter,
                   unique_props(IF book_filter # NoFilter
                                THEN SelectSeq(quotes, LAMBDA q : q.book = book_filter)
                                ELSE quotes))

(***************************************************************************)
(* Initial values.  Each specification below starts its own part of the    *)
(* state as the program constructs it and leaves the other parts idle.     *)
(***************************************************************************)
InitKellyVars ==
    /\ risk_mult \in {Hundredths(m) : m \in RiskMultipliers}
    /\ kelly_call = None

IdleKellyVars ==
    /\ risk_mult = Hundredths(RISK_MULTIPLIER)
    /\ kelly_call = None

InitAnalystVars ==
    /\ now = 0
    /\ enabled \in BOOLEAN
    /\ analysis_cache = NoFile
    /\ analysis = None
    /\ rec = None

IdleAnalystVars ==
    /\ now = 0
    /\ enabled = FALSE
    /\ analysis_cache = NoFile
    /\ analysis = None
    /\ rec = None

NotLoaded == [loaded |-> FALSE]

InitShopVars ==
    /\ props = NotLoaded
    /\ run = None

IdleShopVars ==
    /\ props = NotLoaded
    /\ run = None

InitCacheVars ==
    /\ nba_cache = NoFile
    /\ cache_call = None
    /\ saved = [nba |-> NoEntries, analysis |-> NoEntries]
    /\ cache_saves = 0

IdleCacheVars == InitCacheVars

IdleWorkerVars ==
    /\ trends_cache = NoFile
    /\ workers = <<>>

IdleImpliedVars == implied_call = None

IdlePoolVars ==
    /\ pool = <<>>
    /\ results = <<>>
    /\ completed = 0

IdleFetchVars ==
    /\ api_key = FALSE
    /\ fetch_call = None

IdleViewVars ==
    /\ listing = <<>>
    /\ screen = None
    /\ report = None
    /\ results_file = None

IdleTrendVars ==
    /\ research_enabled = FALSE
    /\ trends_call = None

IdleBetterVars == better_call = None

IdleStakeVars == stake_call = None

(***************************************************************************)
(* Line shopping: the quotes of one event, then a run over them.           *)
(***************************************************************************)
MaxProps == 5

\* One outcome quoted by three books (the third without a side, as the demo
\* quotes are), a tie on price between two books, and the opposite side.
QuoteSet ==
    { Quote("LeBron James", "PTS", "player_points", "Over", 285, "DraftKings", 191),
      Quote("LeBron James", "PTS", "player_points", "Over", 285, "Bet365", 195),
      Quote("LeBron James", "PTS", "player_points", Missing, 285, "FanDuel", 188),
      Quote("LeBron James", "PTS", "player_points", "Over", 285, "FanDuel", 195),
      Quote("LeBron James", "PTS", "player_points", "Under", 285, "Bet365", 205) }

QuoteLists == UNION {[1..n -> QuoteSet] : n \in 0..MaxProps}

\* fetcher.get_props_for_game(game_id) returns the event's quotes.
GetProps ==
    /\ ~props.loaded
    /\ \E quotes \in QuoteLists : props' = [loaded |-> TRUE, items |-> quotes]
    /\ run' = None
    /\ UNCHANGED <<kellyVars, analystVars, cacheVars, workerVars, impliedVars, poolVars, fetchVars, viewVars, trendVars, betterVars, stakeVars>>

\* app.py: the Analyze button, with the book selected in the sidebar.  A run
\* reads props and the selection only, so one run per fetch shows them all.
RunAnalysis(selected_book) ==
    /\ props.loaded /\ run = None
    /\ selected_book \in {"All Books"} \cup get_books_from_props(props.items)
    /\ run' = run_analysis(props.items, selected_book)
    /\ UNCHANGED <<props, kellyVars, analystVars, cacheVars, workerVars, impliedVars, poolVars, fetchVars, viewVars, trendVars, betterVars, stakeVars>>

\* prop_gem.py: main, from the book filter to the submitted props.
BatchMain(book_filter) ==
    /\ props.loaded /\ run = None
    /\ run' = batch_main(props.items, book_filter)
    /\ UNCHANGED <<props, kellyVars, analystVars, cacheVars, workerVars, impliedVars, poolVars, fetchVars, viewVars, trendVars, betterVars, stakeVars>>

InitShop == IdleKellyVars /\ IdleAnalystVars /\ InitShopVars /\ IdleCacheVars /\ IdleWorkerVars /\ IdleImpliedVars /\ IdlePoolVars /\ IdleFetchVars /\ IdleViewVars /\ IdleTrendVars /\ IdleBetterVars /\ IdleStakeVars

NextShop ==
    \/ GetProps
    \/ \E b \in {"All Books"} \cup BookFilters : RunAnalysis(b)
    \/ \E b \in {NoFilter} \cup BookFilters : BatchMain(b)

SpecShop == InitShop /\ [][NextShop]_vars

(***************************************************************************)
(* The analyst pipeline: estimator responses, the analysis cache, the      *)
(* clock, and the batch unit of work on top of analyze_prop.               *)
(***************************************************************************)
ThePlayer == "LeBron James"
TheLine == 285

TimePoints == {0, 59, 60}
AnalystOdds == {0, 191}
RespTexts ==
    { <<>>, <<"w">>, <<"{">>, <<"}", "{">>, <<"{", "}">>, <<"{", "w", "}">>,
      <<"w", "{", "f", "}", "w">>, <<"{", "f", "}", "}">> }
RawEdges == {-5000, -100, 0, 264, 299, 300, 1000, 5000, 120000}
RawRatings == {"SMASH", "LEAN", "PASS", "FADE", "BOGUS", Missing}
FieldSets ==
    { [edge_percentage |-> e, rating |-> r,
       confidence |-> "High", reasoning |-> "because"] :
        e \in {NumEdge(i) : i \in RawEdges} \cup {StrEdge, NoEdge},
        r \in RawRatings }
\* The estimator's answers: a text, and the values of its members when the
\* text has members.
Responses ==
    {[text |-> t, fields |-> NoFields] :
        t \in {t \in RespTexts : \A i \in 1..Len(t) : t[i] # "f"}}
    \cup {[text |-> <<"w", "{", "f", "}", "w">>, fields |-> f] : f \in FieldSets}
    \cup {[text |-> <<"{", "f", "}", "}">>, fields |-> f] :
            f \in {f \in FieldSets : f.edge_percentage = NumEdge(1000)
                                      /\ f.rating = "SMASH"}}

\* run_analysis's call (app.py line 231): analyst.analyze_prop(...)
AnalyzeProp(o, resp) ==
    LET odds == Hundredths(o)
    IN  \E out \in analyze_prop(ThePlayer, "PTS", TheLine, odds, "Over",
                                 resp.text, resp.fields) :
            /\ analysis' = CallRecord(odds, out, resp.text, resp.fields)
            /\ analysis_cache' = out.file
            /\ rec' = None
            /\ UNCHANGED <<now, enabled, kellyVars, shopVars, cacheVars, workerVars, impliedVars, poolVars, fetchVars, viewVars, trendVars, betterVars, stakeVars>>

\* process_prop (prop_gem.py): get_analysis(...), then the Kelly stake.
ProcessProp(o, resp) ==
    LET odds == Hundredths(o)
    IN  \E out \in analyze_prop(ThePlayer, "points", TheLine, odds, "Over",
                                 resp.text, resp.fields) :
            /\ analysis' = CallRecord(odds, out, resp.text, resp.fields)
            /\ analysis_cache' = out.file
            /\ rec' = [returned |-> process_prop(odds, out)]
            /\ UNCHANGED <<now, enabled, kellyVars, shopVars, cacheVars, workerVars, impliedVars, poolVars, fetchVars, viewVars, trendVars, betterVars, stakeVars>>

Tick ==
    /\ \E t \in TimePoints : t > now /\ now' = t
    /\ UNCHANGED <<enabled, analysis_cache, analysis, rec, kellyVars, shopVars, cacheVars, workerVars, impliedVars, poolVars, fetchVars, viewVars, trendVars, betterVars, stakeVars>>

Init == IdleKellyVars /\ InitAnalystVars /\ IdleShopVars /\ IdleCacheVars /\ IdleWorkerVars /\ IdleImpliedVars /\ IdlePoolVars /\ IdleFetchVars /\ IdleViewVars /\ IdleTrendVars /\ IdleBetterVars /\ IdleStakeVars

\* The interactive workflow's use of the analyst.
Next ==
    \/ \E o \in AnalystOdds, resp \in Responses : AnalyzeProp(o, resp)
    \/ Tick

Spec == Init /\ [][Next]_vars

\* The batch workflow's unit of work.
NextBatch ==
    \/ \E o \in AnalystOdds, resp \in Responses : ProcessProp(o, resp)
    \/ Tick

SpecBatch == Init /\ [][NextBatch]_vars

(***************************************************************************)
(* The stake calculator on its own: every probability, price and risk      *)
(* multiplier of a bounded grid.                                           *)
(***************************************************************************)
\* Probabilities outside [0, 1], as a caller may pass them.
ProbsOutside == {-10, 150}

\* 1 / decimal_odds: the quotient, or ZeroDivisionError.
CalculateImpliedProbability(o) ==
    /\ implied_call' =
           IF ImpliedRaises(Hundredths(o))
           THEN [decimal_odds |-> Hundredths(o), status |-> "raise",
                 value |-> None]
           ELSE [decimal_odds |-> Hundredths(o), status |-> "ok",
                 value |-> calculate_implied_probability(Hundredths(o))]
    /\ UNCHANGED <<kellyVars, analystVars, shopVars, cacheVars, workerVars, poolVars, fetchVars, viewVars, trendVars, betterVars, stakeVars>>

CalculateKellyStake(p, o) ==
    /\ kelly_call' = [win_prob |-> Hundredths(p),
                      decimal_odds |-> Hundredths(o),
                      stake |-> calculate_kelly_stake(Hundredths(p), Hundredths(o))]
    /\ UNCHANGED <<risk_mult, analystVars, shopVars, cacheVars, workerVars, impliedVars, poolVars, fetchVars, viewVars, trendVars, betterVars, stakeVars>>

InitKelly == InitKellyVars /\ IdleAnalystVars /\ IdleShopVars /\ IdleCacheVars /\ IdleWorkerVars /\ IdleImpliedVars /\ IdlePoolVars /\ IdleFetchVars /\ IdleViewVars /\ IdleTrendVars /\ IdleBetterVars /\ IdleStakeVars

NextKelly ==
    \/ \E p \in KellyProbs \cup ProbsOutside, o \in KellyOdds :
           CalculateKellyStake(p, o)
    \/ \E o \in KellyOdds : CalculateImpliedProbability(o)

SpecKelly == InitKelly /\ [][NextKelly]_vars

(***************************************************************************)
(* The two cache files: saves, loads and the clock.                        *)
(***************************************************************************)
MaxSaves == 3

CacheTimes == {0, 14, 15, 59, 60, 359, 360}

\* get_schedule and get_props_for_game: the key and the time-to-live each
\* passes to _load_cache.
FetcherKeys == {"schedule", "props_g1"}
CacheMinutes(cache_key) ==
    IF cache_key = "schedule" THEN SCHEDULE_CACHE_MINUTES
    ELSE PROPS_CACHE_MINUTES

\* What the fetcher saves: a list of events or of quotes, possibly empty.
FetcherPayloads == {EmptyList, PyList(<<"g1", "g2">>)}

\* analyze_prop: the key of a prop at two prices, and two results.
AnalysisKeys ==
    {Append(_get_cache_key(ThePlayer, "PTS", TheLine, Hundredths(o)), "Over") :
        o \in {191, 195}}
AnalysisPayloads == {PyDict(_simulate_analysis(e)) : e \in {1200, -500}}

Remember(entries, cache_key, data) ==
    [k \in DOMAIN entries \cup {cache_key} |->
        IF k = cache_key THEN [at |-> now, data |-> data] ELSE entries[k]]

SaveCache(cache_key, data) ==
    /\ cache_saves < MaxSaves
    /\ nba_cache' = _save_cache(nba_cache, data, cache_key)
    /\ cache_call' = [op |-> "save", store |-> "nba", key |-> cache_key,
                      at |-> now, data |-> data]
    /\ saved' = [saved EXCEPT !.nba = Remember(@, cache_key, data)]
    /\ cache_saves' = cache_saves + 1
    /\ UNCHANGED <<kellyVars, analystVars, shopVars, workerVars, impliedVars, poolVars, fetchVars, viewVars, trendVars, betterVars, stakeVars>>

LoadCache(cache_key) ==
    /\ cache_call' = [op |-> "load", store |-> "nba", key |-> cache_key,
                      at |-> now, ttl |-> CacheMinutes(cache_key),
                      result |-> _load_cache(nba_cache, cache_key,
                                             CacheMinutes(cache_key))]
    /\ UNCHANGED <<nba_cache, saved, cache_saves,
                   kellyVars, analystVars, shopVars, workerVars, impliedVars, poolVars, fetchVars, viewVars, trendVars, betterVars, stakeVars>>

SaveCachedAnalysis(cache_key, data) ==
    /\ cache_saves < MaxSaves
    /\ analysis_cache' = _save_cached_analysis(analysis_cache, cache_key, data)
    /\ cache_call' = [op |-> "save", store |-> "analysis", key |-> cache_key,
                      at |-> now, data |-> data]
    /\ saved' = [saved EXCEPT !.analysis = Remember(@, cache_key, data)]
    /\ cache_saves' = cache_saves + 1
    /\ UNCHANGED <<now, enabled, analysis, rec, nba_cache,
                   kellyVars, shopVars, workerVars, impliedVars, poolVars, fetchVars, viewVars, trendVars, betterVars, stakeVars>>

LoadCachedAnalysis(cache_key) ==
    /\ cache_call' = [op |-> "load", store |-> "analysis", key |-> cache_key,
                      at |-> now, ttl |-> ANALYSIS_CACHE_MINUTES,
                      result |-> _load_cached_analysis(analysis_cache, cache_key,
                                                       ANALYSIS_CACHE_MINUTES)]
    /\ UNCHANGED <<nba_cache, saved, cache_saves,
                   kellyVars, analystVars, shopVars, workerVars, impliedVars, poolVars, fetchVars, viewVars, trendVars, betterVars, stakeVars>>

CacheTick ==
    /\ \E t \in CacheTimes : t > now /\ now' = t
    /\ UNCHANGED <<enabled, analysis_cache, analysis, rec,
                   kellyVars, shopVars, cacheVars, workerVars, impliedVars, poolVars, fetchVars, viewVars, trendVars, betterVars, stakeVars>>

InitCache == IdleKellyVars /\ IdleAnalystVars /\ IdleShopVars /\ InitCacheVars /\ IdleWorkerVars /\ IdleImpliedVars /\ IdlePoolVars /\ IdleFetchVars /\ IdleViewVars /\ IdleTrendVars /\ IdleBetterVars /\ IdleStakeVars

NextCache ==
    \/ \E k \in FetcherKeys, d \in FetcherPayloads : SaveCache(k, d)
    \/ \E k \in FetcherKeys : LoadCache(k)
    \/ \E k \in AnalysisKeys, d \in AnalysisPayloads : SaveCachedAnalysis(k, d)
    \/ \E k \in AnalysisKeys : LoadCachedAnalysis(k)
    \/ CacheTick

SpecCache == InitCache /\ [][NextCache]_vars

(***************************************************************************)
(* The batch workers: each thread of the pool saves its prop's trends and  *)
(* then its prop's analysis; every save is a read of the whole file, a     *)
(* merge in memory and a rewrite of the whole file, with no lock.          *)
(***************************************************************************)
MaxWorkers == 3

\* unique_props holds one prop per (player, stat_type): one per worker.
Players == <<"LeBron James", "Jayson Tatum", "Anthony Davis", "Stephen Curry">>

TrendsKey(w) == trends_cache_key(Players[w], "points", TheLine, "Over")
AnalysisKey(w) ==
    Append(_get_cache_key(Players[w], "points", TheLine, Hundredths(191)), "Over")

TrendsData(w) == PyDict([player |-> Players[w], trend_direction |-> "Stable"])
AnalysisData(w) == PyDict(_simulate_analysis(500))

Worker(pc, cache, wrote) == [pc |-> pc, cache |-> cache, wrote |-> wrote]

At(w, pc) == w \in DOMAIN workers /\ workers[w].pc = pc

\* researcher.py 131-138: no response, so nothing is saved.
SkipTrends(w) ==
    /\ At(w, "trends_read")
    /\ workers' = [workers EXCEPT ![w].pc = "analysis_read"]
    /\ UNCHANGED <<trends_cache, kellyVars, analystVars, shopVars, cacheVars, impliedVars, poolVars, fetchVars, viewVars, trendVars, betterVars, stakeVars>>

\* _save_cached_trends 60-66: cache = the file's content, {} when there is
\* no file or it does not decode.
ReadTrends(w) ==
    /\ At(w, "trends_read")
    /\ workers' = [workers EXCEPT
                     ![w].pc = "trends_open",
                     ![w].cache = IF Decodable(trends_cache)
                                  THEN trends_cache.entries ELSE NoEntries]
    /\ UNCHANGED <<trends_cache, kellyVars, analystVars, shopVars, cacheVars, impliedVars, poolVars, fetchVars, viewVars, trendVars, betterVars, stakeVars>>

\* _save_cached_trends 67-72: the merge, and open(..., 'w').
OpenTrends(w) ==
    /\ At(w, "trends_open")
    /\ workers' = [workers EXCEPT
                     ![w].pc = "trends_dump",
                     ![w].cache = WithEntry(@, TrendsKey(w), TrendsData(w))]
    /\ trends_cache' = Truncated
    /\ UNCHANGED <<kellyVars, analystVars, shopVars, cacheVars, impliedVars, poolVars, fetchVars, viewVars, trendVars, betterVars, stakeVars>>

\* _save_cached_trends 73: json.dump and the close of the file.
DumpTrends(w) ==
    /\ At(w, "trends_dump")
    /\ trends_cache' = FileOf(workers[w].cache)
    /\ workers' = [workers EXCEPT
                     ![w].pc = "analysis_read",
                     ![w].wrote = @ \cup {"trends"}]
    /\ UNCHANGED <<kellyVars, analystVars, shopVars, cacheVars, impliedVars, poolVars, fetchVars, viewVars, trendVars, betterVars, stakeVars>>

\* _save_cached_analysis 92-95: cache = the file's content, {} when there is
\* no file; a file that does not decode raises, and the save is given up
\* (104-105).
ReadAnalysis(w) ==
    /\ At(w, "analysis_read")
    /\ workers' = [workers EXCEPT
                     ![w].pc = IF analysis_cache.exists /\ ~Decodable(analysis_cache)
                               THEN "done" ELSE "analysis_open",
                     ![w].cache = IF Decodable(analysis_cache)
                                  THEN analysis_cache.entries ELSE NoEntries]
    /\ UNCHANGED <<trends_cache, kellyVars, analystVars, shopVars, cacheVars, impliedVars, poolVars, fetchVars, viewVars, trendVars, betterVars, stakeVars>>

\* _save_cached_analysis 97-102: the merge, and open(..., 'w').
OpenAnalysis(w) ==
    /\ At(w, "analysis_open")
    /\ workers' = [workers EXCEPT
                     ![w].pc = "analysis_dump",
                     ![w].cache = WithEntry(@, AnalysisKey(w), AnalysisData(w))]
    /\ analysis_cache' = Truncated
    /\ UNCHANGED <<now, enabled, analysis, rec, trends_cache,
                   kellyVars, shopVars, cacheVars, impliedVars, poolVars, fetchVars, viewVars, trendVars, betterVars, stakeVars>>

\* _save_cached_analysis 103: json.dump and the close of the file.
DumpAnalysis(w) ==
    /\ At(w, "analysis_dump")
    /\ analysis_cache' = FileOf(workers[w].cache)
    /\ workers' = [workers EXCEPT
                     ![w].pc = "done",
                     ![w].wrote = @ \cup {"analysis"}]
    /\ UNCHANGED <<now, enabled, analysis, rec, trends_cache,
                   kellyVars, shopVars, cacheVars, impliedVars, poolVars, fetchVars, viewVars, trendVars, betterVars, stakeVars>>

\* prop_gem.py 276-280: process_prop submitted for each unique prop.
InitWorkerVars ==
    /\ trends_cache = NoFile
    /\ workers \in {[w \in 1..n |-> Worker("trends_read", NoEntries, {})] :
                       n \in 1..MaxWorkers}

InitWorkers ==
    /\ IdleKellyVars /\ IdleShopVars /\ IdleCacheVars /\ InitWorkerVars
    /\ IdleImpliedVars /\ IdlePoolVars /\ IdleFetchVars
    /\ now = 0 /\ enabled = TRUE /\ analysis_cache = NoFile
    /\ analysis = None /\ rec = None
    /\ IdleViewVars
    /\ IdleTrendVars
    /\ IdleBetterVars
    /\ IdleStakeVars

NextWorkers ==
    \E w \in 1..MaxWorkers :
        \/ SkipTrends(w)
        \/ ReadTrends(w)
        \/ OpenTrends(w)
        \/ DumpTrends(w)
        \/ ReadAnalysis(w)
        \/ OpenAnalysis(w)
        \/ DumpAnalysis(w)

SpecWorkers == InitWorkers /\ [][NextWorkers]_vars

(***************************************************************************)
(* The batch pool: process_prop submitted for each unique prop, and main   *)
(* collecting what each returned, in the order of completion.              *)
(***************************************************************************)
MaxPool == 3

\* The estimator's answers to the pool's props.
PoolAnswers ==
    {[text |-> <<"{", "f", "}">>,
      fields |-> [edge_percentage |-> NumEdge(a[1]), rating |-> a[2],
                  confidence |-> "High", reasoning |-> "because"]] :
        a \in {<<1200, "SMASH">>, <<500, "LEAN">>, <<200, "PASS">>}}

Future(odds, pc, returned) == [odds |-> odds, pc |-> pc, returned |-> returned]

\* process_prop's record, with the prop it is about (prop_gem.py 114-127).
PoolRecord(w, r) ==
    [player |-> Players[w], market |-> "PTS", line |-> TheLine,
     odds |-> r.odds, book |-> "DraftKings", edge |-> r.edge,
     rating |-> r.rating, kelly_pct |-> r.kelly_pct]

\* A worker thread runs process_prop on its prop: a record, or None when
\* anything in it raised.
Process(w) ==
    /\ w \in DOMAIN pool /\ pool[w].pc = "submitted"
    /\ \E resp \in PoolAnswers :
          \E out \in analyze_prop(Players[w], "points", TheLine, pool[w].odds,
                                   "Over", resp.text, resp.fields) :
              /\ analysis_cache' = out.file
              /\ pool' = [pool EXCEPT
                            ![w].pc = "finished",
                            ![w].returned =
                                IF process_prop(pool[w].odds, out) = None
                                THEN None
                                ELSE PoolRecord(w, process_prop(pool[w].odds, out))]
    /\ UNCHANGED <<now, enabled, analysis, rec, results, completed,
                   kellyVars, shopVars, cacheVars, workerVars, impliedVars, fetchVars, viewVars, trendVars, betterVars, stakeVars>>

CollectUnchecked(w) ==
    /\ w \in DOMAIN pool /\ pool[w].pc = "finished"
    /\ pool' = [pool EXCEPT ![w].pc = "collected"]
    /\ results' = Append(results, pool[w].returned)
    /\ completed' = completed + 1
    /\ UNCHANGED <<kellyVars, analystVars, shopVars, cacheVars, workerVars,
                   impliedVars, fetchVars, viewVars, trendVars, betterVars, stakeVars>>

\* prop_gem.py 282-287: the next completed future; its result is appended
\* when it is truthy.
Collect(w) ==
    /\ w \in DOMAIN pool /\ pool[w].pc = "finished"
    /\ pool' = [pool EXCEPT ![w].pc = "collected"]
    /\ results' = IF pool[w].returned # None
                  THEN Append(results, pool[w].returned) ELSE results
    /\ completed' = completed + 1
    /\ UNCHANGED <<kellyVars, analystVars, shopVars, cacheVars, workerVars,
                   impliedVars, fetchVars, viewVars, trendVars, betterVars, stakeVars>>

\* prop_gem.py 276-280: unique_props, one future each; a price of 0 is a
\* quote without a price.
InitPoolVars ==
    /\ pool \in UNION {[1..n -> {Future(Hundredths(o), "submitted", None) :
                                    o \in {0, 191}}] : n \in 1..MaxPool}
    /\ results = <<>>
    /\ completed = 0

InitPool ==
    /\ IdleKellyVars /\ IdleShopVars /\ IdleCacheVars /\ IdleWorkerVars
    /\ IdleImpliedVars /\ InitPoolVars /\ IdleFetchVars
    /\ now = 0 /\ enabled = TRUE /\ analysis_cache = NoFile
    /\ analysis = None /\ rec = None
    /\ IdleViewVars
    /\ IdleTrendVars
    /\ IdleBetterVars
    /\ IdleStakeVars

\* prop_gem.py 290-291: with every future collected, display_results sorts
\* the results list in place and prints the report.
PoolDisplay ==
    /\ pool # <<>> /\ completed = Len(pool)
    /\ report = None
    /\ report' = display_results(results)
    /\ results' = report'.results
    /\ UNCHANGED <<pool, completed, listing, screen, results_file,
                   kellyVars, analystVars, shopVars, cacheVars, workerVars,
                   impliedVars, fetchVars, trendVars, betterVars, stakeVars>>

NextPool ==
    \/ \E w \in 1..MaxPool :
          \/ Process(w)
          \/ Collect(w)
    \/ PoolDisplay

SpecPool == InitPool /\ [][NextPool]_vars

(***************************************************************************)
(* The fetcher against the provider: get_schedule and get_props_for_game   *)
(* called over every answer the provider can give, with and without a      *)
(* real API key, as the clock advances.                                    *)
(***************************************************************************)
Event1 ==
    [id |-> "g1",
     bookmakers |-> << Outcome("DraftKings", "player_points", "Over", "LeBron James", 285, 191),
                       Unpriced("FanDuel", "player_points", "Under", "LeBron James", 285) >>]
Event2 == [id |-> "g2"]

FetchAnswers ==
    { RaiseAnswer, OtherAnswer,
      ListAnswer(<<>>), ListAnswer(<<Event1>>), ListAnswer(<<Event1, Event2>>),
      DictAnswer([message |-> "quota"]),
      DictAnswer([error |-> "quota"]),
      DictAnswer([message |-> "quota", error |-> "quota"]),
      DictAnswer([data |-> ListAnswer(<<Event1>>)]),
      DictAnswer([events |-> ListAnswer(<<Event2>>)]),
      DictAnswer(Event1) }

GameIds == {"g1", "demo1"}

Requested(path) == path \in {"failed", "provider"}

FetchCall(op, game_id, data, out) ==
    [op |-> op, game_id |-> game_id,
     data |-> IF Requested(out.path) THEN data ELSE None,
     path |-> out.path, result |-> out.result, before |-> nba_cache,
     at |-> now]

GetSchedule(data) ==
    /\ LET out == get_schedule(nba_cache, api_key, data)
       IN  /\ nba_cache' = out.file
           /\ fetch_call' = FetchCall("get_schedule", "", data, out)
    /\ UNCHANGED <<api_key, cache_call, saved, cache_saves,
                   kellyVars, analystVars, shopVars, workerVars, impliedVars, poolVars, viewVars, trendVars, betterVars, stakeVars>>

GetPropsForGame(game_id, data) ==
    /\ LET out == get_props_for_game(nba_cache, api_key, game_id, data)
       IN  /\ nba_cache' = out.file
           /\ fetch_call' = FetchCall("get_props_for_game", game_id, data, out)
    /\ UNCHANGED <<api_key, cache_call, saved, cache_saves,
                   kellyVars, analystVars, shopVars, workerVars, impliedVars, poolVars, viewVars, trendVars, betterVars, stakeVars>>

InitFetchVars ==
    /\ api_key \in BOOLEAN
    /\ fetch_call = None

InitFetch ==
    /\ IdleKellyVars /\ IdleAnalystVars /\ IdleShopVars /\ IdleCacheVars
    /\ IdleWorkerVars /\ IdleImpliedVars /\ IdlePoolVars /\ InitFetchVars
    /\ IdleViewVars
    /\ IdleTrendVars
    /\ IdleBetterVars
    /\ IdleStakeVars

NextFetch ==
    \/ \E data \in FetchAnswers : GetSchedule(data)
    \/ \E game_id \in GameIds, data \in FetchAnswers : GetPropsForGame(game_id, data)
    \/ CacheTick

SpecFetch == InitFetch /\ [][NextFetch]_vars

(***************************************************************************)
(* The two result views: a results list of any ratings and edges is shown  *)
(* by the interactive page (app.py main) or printed by the batch report    *)
(* (prop_gem.py display_results) and then saved.                           *)
(***************************************************************************)
MaxResults == 3

Ratings == {"SMASH", "LEAN", "PASS", "FADE"}
ViewEdges == {1200, 500, -200}

\* Every list of up to MaxResults results, one per player; a rating of the
\* four and an edge, in any combination (the estimator's label is kept
\* whatever the edge).
ResultLists ==
    UNION { { [i \in 1..n |-> [player |-> Players[i], rating |-> f[i][1],
                               edge |-> TenThousandths(f[i][2])]] :
                f \in [1..n -> Ratings \X ViewEdges] } : n \in 0..MaxResults }

MainResults ==
    /\ screen = None /\ report = None
    /\ screen' = main_results(listing)
    /\ listing' = screen'.results
    /\ UNCHANGED <<report, results_file,
                   kellyVars, analystVars, shopVars, cacheVars, workerVars, impliedVars, poolVars, fetchVars, trendVars, betterVars, stakeVars>>

DisplayResults ==
    /\ screen = None /\ report = None
    /\ report' = display_results(listing)
    /\ listing' = report'.results
    /\ UNCHANGED <<screen, results_file,
                   kellyVars, analystVars, shopVars, cacheVars, workerVars, impliedVars, poolVars, fetchVars, trendVars, betterVars, stakeVars>>

SaveResults ==
    /\ report # None /\ results_file = None
    /\ results_file' = [lines |-> saved_lines(listing)]
    /\ UNCHANGED <<listing, screen, report,
                   kellyVars, analystVars, shopVars, cacheVars, workerVars, impliedVars, poolVars, fetchVars, trendVars, betterVars, stakeVars>>

InitViewVars ==
    /\ listing \in ResultLists
    /\ screen = None
    /\ report = None
    /\ results_file = None

InitViews ==
    /\ IdleKellyVars /\ IdleAnalystVars /\ IdleShopVars /\ IdleCacheVars
    /\ IdleWorkerVars /\ IdleImpliedVars /\ IdlePoolVars /\ IdleFetchVars
    /\ InitViewVars
    /\ IdleTrendVars
    /\ IdleBetterVars
    /\ IdleStakeVars

NextViews == MainResults \/ DisplayResults \/ SaveResults

SpecViews == InitViews /\ [][NextViews]_vars

(***************************************************************************)
(* The researcher: get_player_trends called for a prop over the answers    *)
(* the research model can give, enabled or not, as the clock advances.     *)
(***************************************************************************)
TrendTexts ==
    { <<>>,
      <<Num(7), Word("out of 10")>>,
      <<Num(15), Word("out of 10")>>,
      <<Num(60), Word("%"), Word("hot")>>,
      <<Num(150), Word("%")>>,
      <<Word("cold"), Word("injury")>>,
      <<Num(60), Word("%"), Num(3), Word("out of 10")>> }

GetPlayerTrends(response) ==
    /\ \E out \in get_player_trends(trends_cache, research_enabled, ThePlayer,
                                    "points", TheLine, "Over", response) :
          /\ trends_cache' = out.file
          /\ trends_call' = [path |-> out.path, result |-> out.result,
                             response |-> IF out.path \in {"parsed", "simulated"}
                                          THEN response ELSE <<>>,
                             before |-> trends_cache, at |-> now]
    /\ UNCHANGED <<research_enabled, workers,
                   kellyVars, analystVars, shopVars, cacheVars, impliedVars, poolVars, fetchVars, viewVars, betterVars, stakeVars>>

InitTrendVars ==
    /\ research_enabled \in BOOLEAN
    /\ trends_call = None

InitTrends ==
    /\ IdleKellyVars /\ IdleAnalystVars /\ IdleShopVars /\ IdleCacheVars
    /\ IdleWorkerVars /\ IdleImpliedVars /\ IdlePoolVars /\ IdleFetchVars
    /\ IdleViewVars /\ InitTrendVars
    /\ IdleBetterVars
    /\ IdleStakeVars

NextTrends ==
    \/ \E response \in TrendTexts : GetPlayerTrends(response)
    \/ CacheTick

SpecTrends == InitTrends /\ [][NextTrends]_vars

(***************************************************************************)
(* The batch workflow over the quotes of an event: the book filter and the *)
(* de-duplication of main, and find_better_odds for a reference prop.      *)
(***************************************************************************)
MaxQuotes == 4

\* Two books at one line, a line 0.4 away on the other side at a tied price,
\* a line 0.5 away at the best price, another stat and another player.
EventQuotes ==
    { Quote("LeBron James", "PTS", "player_points", "Over", 285, "DraftKings", 191),
      Quote("LeBron James", "PTS", "player_points", "Over", 285, "FanDuel", 195),
      Quote("LeBron James", "PTS", "player_points", "Under", 289, "Bet365", 195),
      Quote("LeBron James", "PTS", "player_points", "Over", 290, "FanDuel", 205),
      Quote("LeBron James", "REB", "player_rebounds", "Over", 85, "DraftKings", 200),
      Quote("Jayson Tatum", "PTS", "player_points", "Over", 285, "DraftKings", 210) }

EventQuoteLists == UNION {[1..n -> EventQuotes] : n \in 0..MaxQuotes}

\* fetcher.get_props_for_game(selected_game['id']) returns the event's quotes.
GetEventProps ==
    /\ ~props.loaded
    /\ \E quotes \in EventQuoteLists : props' = [loaded |-> TRUE, items |-> quotes]
    /\ UNCHANGED <<run, better_call, kellyVars, analystVars, cacheVars, workerVars, impliedVars, poolVars, fetchVars, viewVars, trendVars, stakeVars>>

\* display_results, line 164: better = find_better_odds(props, r), for the
\* result of the n-th quote.
FindBetterOdds(n) ==
    /\ props.loaded /\ better_call = None
    /\ n \in 1..Len(props.items)
    /\ better_call' = [current_prop |-> props.items[n],
                  returned |-> find_better_odds(props.items, props.items[n])]
    /\ UNCHANGED <<props, run, kellyVars, analystVars, cacheVars, workerVars, impliedVars, poolVars, fetchVars, viewVars, trendVars, stakeVars>>

InitQuotes ==
    /\ IdleKellyVars /\ IdleAnalystVars /\ InitShopVars /\ IdleCacheVars
    /\ IdleWorkerVars /\ IdleImpliedVars /\ IdlePoolVars /\ IdleFetchVars
    /\ IdleViewVars /\ IdleTrendVars /\ IdleBetterVars /\ IdleStakeVars

NextQuotes ==
    \/ GetEventProps
    \/ \E b \in {NoFilter} \cup BookFilters : BatchMain(b)
    \/ \E n \in 1..MaxQuotes : FindBetterOdds(n)

SpecQuotes == InitQuotes /\ [][NextQuotes]_vars

(***************************************************************************)
(* The stake of a prop as the interpreter computes it: process_prop's      *)
(* third step for a prop at any price of a range and an analysis of any    *)
(* rating, with an edge of zero, of one ten-thousandth either way, or      *)
(* larger.                                                                 *)
(***************************************************************************)
StakeOdds == 150..205
StakeEdges == {-500, -1, 0, 1, 1200}
StakeRatings == {"SMASH", "LEAN", "PASS", "FADE"}

\* process_prop, lines 109-122: the stake in binary64 (kelly_pct) and, for
\* comparison, the stake the same formulas give in exact arithmetic.
ProcessStake ==
    /\ "kelly_pct" \notin DOMAIN stake_call
    /\ stake_call' =
           [odds |-> stake_call.odds,
            edge |-> stake_call.edge,
            rating |-> stake_call.rating,
            kelly_pct |-> float_kelly_pct(FromDecimal(stake_call.odds, 100),
                                          FromDecimal(stake_call.edge, 10000)),
            exact |-> calculate_kelly_stake(
                          calculate_true_win_pct(
                              calculate_implied_probability(
                                  Hundredths(stake_call.odds)),
                              TenThousandths(stake_call.edge)),
                          Hundredths(stake_call.odds))]
    /\ UNCHANGED <<kellyVars, analystVars, shopVars, cacheVars, workerVars, impliedVars, poolVars, fetchVars, viewVars, trendVars, betterVars>>

InitStakeVars ==
    stake_call \in [odds : StakeOdds, edge : StakeEdges, rating : StakeRatings]

InitStake ==
    /\ IdleKellyVars /\ IdleAnalystVars /\ IdleShopVars /\ IdleCacheVars
    /\ IdleWorkerVars /\ IdleImpliedVars /\ IdlePoolVars /\ IdleFetchVars
    /\ IdleViewVars /\ IdleTrendVars /\ IdleBetterVars
    /\ InitStakeVars

NextStake == ProcessStake

SpecStake == InitStake /\ [][NextStake]_vars

(***************************************************************************)
(* Claims about the stake calculator (checked under SpecKelly).            *)
(***************************************************************************)
\* The call's arguments and configured multiplier as integers: hundredths.
KP == (kelly_call.win_prob[1] * 100) \div kelly_call.win_prob[2]
KO == (kelly_call.decimal_odds[1] * 100) \div kelly_call.decimal_odds[2]
KM == (risk_mult[1] * 100) \div risk_mult[2]
\* Full Kelly (b*p - (1-p))/b as the fraction KFullNum / KFullDen, written out
\* in integers; KFullDen > 0 exactly when decimal_odds > 1.
KFullNum == (KO - 100) * KP - 100 * (100 - KP)
KFullDen == 100 * (KO - 100)
KStakeNum == kelly_call.stake[1]
KStakeDen == kelly_call.stake[2]

\* C4: calculate_kelly_stake returns exactly 0 whenever decimal_odds <= 1 and
\* exactly 0 whenever full Kelly (b*p - (1-p))/b is <= 0, for every p in [0,1]
\* and every risk multiplier in [0,1].
C4_ZeroStake ==
    kelly_call # None =>
        /\ KO <= 100 => kelly_call.stake = <<0, 1>>
        /\ (KO > 100 /\ KFullNum <= 0) => kelly_call.stake = <<0, 1>>

\* C4 witness: a call at a valid price whose full Kelly is negative, under a
\* positive multiplier, returned 0.
C4_Witness ==
    /\ kelly_call # None
    /\ KO > 100 /\ KFullNum < 0 /\ KM > 0
    /\ kelly_call.stake = <<0, 1>>

\* C5 (amended): for decimal_odds > 1 the stake equals
\* max(0, fullKelly * riskMultiplier); it is never negative and never exceeds
\* full Kelly when full Kelly is positive; p=0.65, odds=1.91, multiplier=0.25
\* gives 0.0663 to four decimals.
C5_StakeFormula ==
    (kelly_call # None /\ KO > 100) =>
        /\ KStakeDen > 0
        /\ KStakeNum >= 0
        /\ IF KFullNum <= 0
           THEN KStakeNum = 0
           ELSE /\ KStakeNum * KFullDen * 100 = KFullNum * KM * KStakeDen
                /\ KStakeNum * KFullDen <= KFullNum * KStakeDen
        /\ (KP = 65 /\ KO = 191 /\ KM = 25) =>
              /\ 66250 * KStakeDen <= KStakeNum * 1000000
              /\ KStakeNum * 1000000 < 66350 * KStakeDen

\* C5 witness: the worked example has been computed.
C5_Witness ==
    /\ kelly_call # None
    /\ KP = 65 /\ KO = 191 /\ KM = 25
    /\ KStakeNum > 0

\* C5 as stated: the same formula, with the worked example giving about 0.0659
\* (0.0659 to four decimals).
C5_AsStated ==
    (kelly_call # None /\ KO > 100) =>
        /\ KStakeNum >= 0
        /\ IF KFullNum <= 0
           THEN KStakeNum = 0
           ELSE /\ KStakeNum * KFullDen * 100 = KFullNum * KM * KStakeDen
                /\ KStakeNum * KFullDen <= KFullNum * KStakeDen
        /\ (KP = 65 /\ KO = 191 /\ KM = 25) =>
              /\ 65850 * KStakeDen <= KStakeNum * 1000000
              /\ KStakeNum * 1000000 < 65950 * KStakeDen

(***************************************************************************)
(* Claims about the analyst (checked under Spec and SpecBatch).            *)
(***************************************************************************)
Returned == analysis # None /\ analysis.status = "ok"
EdgeNum == analysis.result.edge_percentage[1]
EdgeDen == analysis.result.edge_percentage[2]
\* The threshold table of the rating policy on the fraction n/d (d > 0).
TableRating(n, d) ==
    IF n * 10 >= d THEN "SMASH"
    ELSE IF n * 100 >= 3 * d THEN "LEAN"
    ELSE IF n >= 0 THEN "PASS"
    ELSE "FADE"

\* C1: for every estimator response (valid JSON, out-of-scale value, negative
\* value, missing field, unparsable text, no response) and for cached results,
\* the edge_percentage analyze_prop returns lies in [-0.20, 0.30].
C1_EdgeBounded ==
    Returned =>
        /\ EdgeDen > 0
        /\ -2 * EdgeDen <= 10 * EdgeNum
        /\ 10 * EdgeNum <= 3 * EdgeDen

\* C1 witness: the estimator answered 0.5 and the call returned the bound 0.3.
C1_Witness ==
    /\ Returned
    /\ analysis.path = "parsed"
    /\ analysis.request.data.edge_percentage = NumEdge(5000)
    /\ analysis.result.edge_percentage = <<3, 10>>

\* C2: the rating of every result is the one the threshold table gives for
\* its clamped edge (>= 0.10 SMASH, >= 0.03 LEAN, >= 0.00 PASS, else FADE),
\* whatever label the estimator supplied.
C2_RatingFollowsTable ==
    Returned => analysis.result.rating = TableRating(EdgeNum, EdgeDen)

\* C3: when the estimator returns edge_percentage = 12, the value is divided
\* by 100 before clamping: the edge is 0.12 and the rating is SMASH.
C3_TwelveIsSmash ==
    (/\ Returned
     /\ analysis.path = "parsed"
     /\ analysis.request.data.edge_percentage = NumEdge(120000)) =>
        /\ analysis.result.edge_percentage = <<3, 25>>
        /\ analysis.result.rating = "SMASH"

Processed == rec # None /\ rec.returned # None
\* |x - c/10000| <= 1/20000 for the fraction x: x is c/10000 to four decimals.
About4(x, c) == /\ RLe(Rat(2 * c - 1, 20000), x)
                /\ RLe(x, Rat(2 * c + 1, 20000))

\* C6: the edge of a processed prop equals estimatedWinProbability -
\* 1/marketPrice and its rating follows from the edge; a win probability of
\* 0.55 at price 1.91 gives implied probability about 0.5236, edge about
\* 0.0264 and rating PASS.
C6_EdgeAndRating ==
    Processed =>
        LET r == rec.returned
            n == r.edge[1]
            d == r.edge[2]
        IN  /\ r.implied_prob[1] * r.odds[1] = r.implied_prob[2] * r.odds[2]
            /\ RSub(r.true_win, r.implied_prob) = r.edge
            /\ r.rating = TableRating(n, d)
            /\ (r.odds = <<191, 100>> /\ About4(r.true_win, 5500)) =>
                  /\ About4(r.implied_prob, 5236)
                  /\ About4(r.edge, 264)
                  /\ r.rating = "PASS"

(***************************************************************************)
(* Line shopping (SpecShop).                                               *)
(***************************************************************************)
Interactive == run # None /\ run.mode = "interactive" /\ props.loaded
Batch == run # None /\ run.mode = "batch" /\ props.loaded

\* The positions of the raw quotes of one key.
QuotesOf(key) ==
    {i \in 1..Len(props.items) : OutcomeKey(props.items[i]) = key}

\* Where the i-th raw quote belongs in a best-first list that keeps the input
\* order of equal prices: after every quote of its key with a higher price
\* and after every earlier quote of its key with the same price.
RankOf(i) ==
    LET same == QuotesOf(OutcomeKey(props.items[i]))
    IN  1 + Cardinality({j \in same : props.items[i].odds < props.items[j].odds})
          + Cardinality({j \in same : j < i /\ props.items[j].odds = props.items[i].odds})

\* C7: in the lookup built from the raw quotes, every list is ordered from
\* the highest price to the lowest; every quote of a key is in the key's list
\* exactly once (a book quoted twice is listed twice) and quotes of the same
\* price keep their input order.
C7_LookupBestFirstStable ==
    (Interactive /\ props.items # <<>>) =>
        /\ DOMAIN run.lookup =
               {OutcomeKey(props.items[i]) : i \in 1..Len(props.items)}
        /\ \A key \in DOMAIN run.lookup :
               /\ Len(run.lookup[key]) = Cardinality(QuotesOf(key))
               /\ \A a, b \in 1..Len(run.lookup[key]) :
                      run.lookup[key][a].odds < run.lookup[key][b].odds => b < a
               /\ \A i \in QuotesOf(key) :
                      run.lookup[key][RankOf(i)] =
                          [book |-> props.items[i].book,
                           odds |-> props.items[i].odds]

\* A list that had to be reordered, holding one book twice and two books at
\* the same price.
C7_Witness ==
    /\ Interactive
    /\ \E key \in DOMAIN run.lookup :
           /\ \E i, j \in QuotesOf(key) :
                  i < j /\ props.items[i].odds < props.items[j].odds
           /\ \E a, b \in 1..Len(run.lookup[key]) :
                  a # b /\ run.lookup[key][a] = run.lookup[key][b]
           /\ \E a, b \in 1..Len(run.lookup[key]) :
                  /\ a < b
                  /\ run.lookup[key][a].odds = run.lookup[key][b].odds
                  /\ run.lookup[key][a].book # run.lookup[key][b].book

RowKey(row) == <<row.player, row.market, row.side, row.line>>

\* The entries of the row's key that beat the row's price at another book.
Alternatives(row) ==
    SelectSeq(run.lookup[RowKey(row)],
              LAMBDA item : row.odds < item.odds /\ item.book # row.book)

DK_191 == Quote("LeBron James", "PTS", "player_points", "Over", 285, "DraftKings", 191)
B365_195 == Quote("LeBron James", "PTS", "player_points", "Over", 285, "Bet365", 195)
FD_188 == Quote("LeBron James", "PTS", "player_points", Missing, 285, "FanDuel", 188)

\* C8: the better alternatives shown for a prop are the entries of its key's
\* list with a strictly higher price at a different book, in the list's
\* order, cut to the first three ("-" stands for none); with quotes
\* DraftKings 1.91, Bet365 1.95, FanDuel 1.88 and DraftKings selected the
\* result is [(Bet365, 1.95)].
C8_BetterAlternatives ==
    Interactive =>
        /\ \A r \in 1..Len(run.rows) :
               /\ RowKey(run.rows[r]) \in DOMAIN run.lookup
               /\ IF Alternatives(run.rows[r]) = <<>>
                  THEN run.rows[r].better_lines = <<"-">>
                  ELSE /\ Len(run.rows[r].better_lines) =
                              Min(3, Len(Alternatives(run.rows[r])))
                       /\ \A n \in 1..Len(run.rows[r].better_lines) :
                              run.rows[r].better_lines[n] =
                                  <<Alternatives(run.rows[r])[n].book,
                                    Alternatives(run.rows[r])[n].odds>>
        /\ (props.items = <<DK_191, B365_195, FD_188>>
              /\ run.selected_book = "DraftKings") =>
               /\ Len(run.rows) = 1
               /\ run.rows[1].better_lines = << <<"Bet365", 195>> >>

\* A prop with four better prices elsewhere, of which three are shown.
C8_Witness ==
    /\ Interactive
    /\ \E r \in 1..Len(run.rows) :
           /\ Len(Alternatives(run.rows[r])) > 3
           /\ Len(run.rows[r].better_lines) = 3
           /\ run.rows[r].better_lines[1] # <<"-">>

\* The quoted example itself.
C8_Example ==
    /\ Interactive
    /\ props.items = <<DK_191, B365_195, FD_188>>
    /\ run.selected_book = "DraftKings"
    /\ run.rows[1].better_lines = << <<"Bet365", 195>> >>

\* The highest price any book quotes for the key.
BestPrice(key) ==
    CHOOSE o \in {props.items[i].odds : i \in QuotesOf(key)} :
        \A i \in QuotesOf(key) : props.items[i].odds <= o

\* C9: the price analysed for a prop is the highest price any book quotes
\* for the prop's (player, stat, side, line), whichever book is selected.
C9_BestPriceAnalysed ==
    (run # None /\ props.loaded) =>
        \A r \in 1..Len(run.rows) :
            run.rows[r].analyzed_odds = BestPrice(RowKey(run.rows[r]))

\* The same, for the interactive run alone.
C9_InteractiveBestPrice ==
    Interactive =>
        \A r \in 1..Len(run.rows) :
            run.rows[r].analyzed_odds = BestPrice(RowKey(run.rows[r]))

\* The same, for the batch run without a book filter.
C9_UnfilteredBatchBestPrice ==
    (Batch /\ run.selected_book = NoFilter) =>
        \A r \in 1..Len(run.rows) :
            run.rows[r].analyzed_odds = BestPrice(RowKey(run.rows[r]))

(***************************************************************************)
(* The caches (SpecCache).                                                 *)
(***************************************************************************)
Loaded == cache_call # None /\ cache_call.op = "load"

\* The last save under the key the load asked for, if there was one.
SavedFor(call) == IF call.store = "nba" THEN saved.nba ELSE saved.analysis
Absent(call) == IF call.store = "nba" THEN None ELSE EmptyDict
Fresh(call) ==
    /\ call.key \in DOMAIN SavedFor(call)
    /\ call.at - SavedFor(call)[call.key].at < call.ttl

C10_Expired ==
    /\ Loaded
    /\ cache_call.key \in DOMAIN SavedFor(cache_call)
    /\ cache_call.at - SavedFor(cache_call)[cache_call.key].at = cache_call.ttl
    /\ Truthy(SavedFor(cache_call)[cache_call.key].data)
    /\ cache_call.result = Absent(cache_call)

\* A miss on a file without the key, and on no file.
C10_MissingKey ==
    /\ Loaded
    /\ cache_call.store = "nba"
    /\ nba_cache.exists
    /\ cache_call.key \notin DOMAIN nba_cache.entries
    /\ cache_call.result = None

C10_MissingFile ==
    /\ Loaded
    /\ cache_call.store = "analysis"
    /\ ~analysis_cache.exists
    /\ cache_call.result = EmptyDict

(***************************************************************************)
(* The batch workers' saves (SpecWorkers).                                 *)
(***************************************************************************)
AllDone == workers # <<>> /\ \A w \in DOMAIN workers : workers[w].pc = "done"

Holds(file, cache_key) == Decodable(file) /\ cache_key \in DOMAIN file.entries

\* C11: when the workers have all finished, each cache file holds the entry
\* of every key a worker saved to it: no save is lost to the interleaving of
\* the workers' read-merge-write.
C11_NoLostUpdate ==
    AllDone =>
        \A w \in DOMAIN workers :
            /\ "trends" \in workers[w].wrote => Holds(trends_cache, TrendsKey(w))
            /\ "analysis" \in workers[w].wrote =>
                   Holds(analysis_cache, AnalysisKey(w))

\* Every worker saved both entries and the analysis file lacks one of them.
C11_LostUpdate ==
    /\ AllDone
    /\ \A w \in DOMAIN workers : workers[w].wrote = {"trends", "analysis"}
    /\ \E w \in DOMAIN workers : ~Holds(analysis_cache, AnalysisKey(w))

(***************************************************************************)
(* Failures (Spec, SpecBatch, SpecKelly).                                  *)
(***************************************************************************)
ResultFields == {"edge_percentage", "rating", "confidence", "reasoning"}

\* C12: every analyze_prop call returns a result with edge_percentage,
\* rating, confidence and reasoning and raises nothing, whatever the
\* estimator did (disabled, no response, unparsable text, valid JSON) and
\* whatever the price, a price of 0 included.
C12_AlwaysAResult ==
    analysis # None =>
        /\ analysis.status = "ok"
        /\ DOMAIN analysis.result = ResultFields

\* A call at price 0 with the estimator enabled raised.
C12_Raised ==
    /\ analysis # None
    /\ enabled
    /\ analysis.odds = <<0, 1>>
    /\ analysis.status = "raise"

\* C13: calculate_implied_probability and calculate_kelly_stake never raise,
\* whatever the input (a price <= 1, 0 included; a probability outside
\* [0,1]): the first returns a value, the second a stake that is 0 when the
\* price is <= 1 and is never negative.
C13_NeverRaises ==
    /\ implied_call # None => implied_call.status = "ok"
    /\ kelly_call # None =>
           /\ KStakeDen > 0 /\ KStakeNum >= 0
           /\ KO <= 100 => kelly_call.stake = <<0, 1>>

\* calculate_implied_probability(0) raised.
C13_Raised ==
    /\ implied_call # None
    /\ implied_call.decimal_odds = <<0, 1>>
    /\ implied_call.status = "raise"

\* The stake calculator's part of C13 alone.
C13_KellyNeverRaises ==
    kelly_call # None =>
        /\ KStakeDen > 0 /\ KStakeNum >= 0
        /\ KO <= 100 => kelly_call.stake = <<0, 1>>

\* A probability above 1 at a valid price: the stake is full Kelly times the
\* multiplier, with no clamp of the probability.
C13_ProbabilityNotClamped ==
    /\ kelly_call # None
    /\ KP = 150 /\ KO = 200 /\ KM = 100
    /\ kelly_call.stake = <<2, 1>>

(***************************************************************************)
(* The batch pool (SpecPool).                                              *)
(***************************************************************************)
PoolDone == pool # <<>> /\ completed = Len(pool)

\* What a prop's processing comes to depends on its own price alone.
Succeeded(w) == pool[w].returned # None

\* C14: a prop whose processing failed contributes no record; every other
\* prop is still processed, and when the pool is done the results hold
\* exactly one record for each prop whose processing succeeded.
C14_FailureIsolated ==
    /\ \A i \in 1..Len(results) :
          \E w \in DOMAIN pool :
              /\ pool[w].pc = "collected"
              /\ Succeeded(w)
              /\ results[i] = pool[w].returned
    /\ \A w \in DOMAIN pool :
          pool[w].pc # "submitted" => (Succeeded(w) <=> pool[w].odds # <<0, 1>>)
    /\ PoolDone =>
          /\ \A w \in DOMAIN pool : pool[w].pc = "collected"
          /\ Len(results) = Cardinality({w \in DOMAIN pool : Succeeded(w)})
          /\ \A w \in DOMAIN pool :
                Cardinality({i \in 1..Len(results) :
                                results[i].player = Players[w]}) =
                    IF Succeeded(w) THEN 1 ELSE 0

\* The pool is done, the first prop submitted failed and two others have
\* their records.
C14_Witness ==
    /\ PoolDone
    /\ Len(pool) = 3
    /\ ~Succeeded(1)
    /\ Len(results) = 2

(***************************************************************************)
(* Claims about the fetcher's handling of provider answers (SpecFetch).    *)
(***************************************************************************)
\* The last call made a request and the provider answered with a JSON object.
AnsweredObject ==
    /\ fetch_call # None
    /\ fetch_call.data # None
    /\ fetch_call.data.kind = "dict"
FailureMembers == {"error", "message"} \cap DOMAIN fetch_call.data.members
DemoDataOf(op) ==
    IF op = "get_schedule" THEN _get_demo_schedule ELSE _get_demo_props
TreatedAsFailure ==
    /\ fetch_call.path = "failed"
    /\ fetch_call.result = DemoDataOf(fetch_call.op)
    /\ nba_cache = fetch_call.before

\* C15: when the provider answers with an object carrying an error or a
\* message field, get_schedule and get_props_for_game return the demo data
\* and leave the cache file as it was.
C15_ErrorIsFailure ==
    (AnsweredObject /\ FailureMembers # {}) => TreatedAsFailure

\* An object with only an error field was taken as the provider's data:
\* returned to the caller and written to the cache.
C15_ErrorObjectCached ==
    /\ AnsweredObject
    /\ FailureMembers = {"error"}
    /\ fetch_call.op = "get_schedule"
    /\ fetch_call.path = "provider"
    /\ fetch_call.result = PyList(<<fetch_call.data.members>>)
    /\ nba_cache.exists
    /\ "schedule" \in DOMAIN nba_cache.entries
    /\ JsonLoad(nba_cache.entries["schedule"].data) = fetch_call.result

\* The part of C15 that the code keeps: an object with a message field is a
\* failure.
C15_MessageIsFailure ==
    (AnsweredObject /\ "message" \in FailureMembers) => TreatedAsFailure

\* For the game's props the error object is parsed as an event without
\* bookmakers: an empty list is returned and cached.
C15_ErrorGivesNoProps ==
    /\ AnsweredObject
    /\ FailureMembers = {"error"}
    /\ fetch_call.op = "get_props_for_game"
    /\ fetch_call.result = EmptyList
    /\ nba_cache # fetch_call.before

(***************************************************************************)
(* Claims about the result views (checked under SpecViews).                *)
(***************************************************************************)
\* The rating priorities as the specification gives them.
Priority(rating) ==
    CASE rating = "SMASH" -> 0 [] rating = "LEAN" -> 1
      [] rating = "PASS" -> 2 [] rating = "FADE" -> 3
PosIn(seq, x) == CHOOSE k \in 1..Len(seq) : seq[k] = x
Elems(seq) == {seq[i] : i \in 1..Len(seq)}
IsPermutation(out, in) ==
    /\ Len(out) = Len(in)
    /\ \A x \in Elems(in) \cup Elems(out) :
          Cardinality({i \in 1..Len(out) : out[i] = x})
              = Cardinality({i \in 1..Len(in) : in[i] = x})
Shown == screen # None /\ screen.shown
Printed == report # None /\ report.printed

\* C16: the interactive view's list is a permutation of its input in which
\* no result precedes one of strictly better rating (SMASH 0 < LEAN 1 <
\* PASS 2 < FADE 3), and results of equal rating keep their input order.
C16_RatingOrderStable ==
    Shown =>
        /\ IsPermutation(screen.results, screen.before)
        /\ \A i, j \in 1..Len(screen.results) :
              i < j => Priority(screen.results[i].rating)
                           <= Priority(screen.results[j].rating)
        /\ \A i, j \in 1..Len(screen.before) :
              (i < j /\ screen.before[i].rating = screen.before[j].rating)
                  => PosIn(screen.results, screen.before[i])
                         < PosIn(screen.results, screen.before[j])

\* The sort moved something, and two results of equal rating were in the list.
C16_Witness ==
    /\ Shown
    /\ screen.results # screen.before
    /\ \E i, j \in 1..Len(screen.before) :
          /\ i < j
          /\ screen.before[i].rating = screen.before[j].rating
          /\ \E k \in 1..Len(screen.before) :
                k < i /\ Priority(screen.before[k].rating)
                             > Priority(screen.before[i].rating)

\* C17: the report's list is its input ordered by edge alone, descending:
\* no result precedes one of strictly greater edge, and results of equal
\* edge keep their input order, whatever the ratings.
C17_EdgeOrderStable ==
    Printed =>
        /\ IsPermutation(report.results, report.before)
        /\ \A i, j \in 1..Len(report.results) :
              i < j => RLe(report.results[j].edge, report.results[i].edge)
        /\ \A i, j \in 1..Len(report.before) :
              (i < j /\ report.before[i].edge = report.before[j].edge)
                  => PosIn(report.results, report.before[i])
                         < PosIn(report.results, report.before[j])

\* The sort moved something, two results had equal edges and different
\* ratings, and a result rated worse stands before one rated better.
C17_Witness ==
    /\ Printed
    /\ report.results # report.before
    /\ \E i, j \in 1..Len(report.before) :
          /\ i < j
          /\ report.before[i].edge = report.before[j].edge
          /\ Priority(report.before[i].rating) > Priority(report.before[j].rating)
    /\ \E i, j \in 1..Len(report.results) :
          /\ i < j
          /\ RLt(report.results[j].edge, report.results[i].edge)
          /\ Priority(report.results[i].rating) > Priority(report.results[j].rating)

\* C18: the highlights of the ranked list are exactly its SMASH results,
\* each once, in the order they have in the ranked list.
C18_HighlightsAreSmash ==
    Shown =>
        /\ \A k \in 1..Len(screen.smash_plays) :
              /\ screen.smash_plays[k].rating = "SMASH"
              /\ screen.smash_plays[k] \in Elems(screen.results)
        /\ \A i \in 1..Len(screen.results) :
              screen.results[i].rating = "SMASH"
                  => Cardinality({k \in 1..Len(screen.smash_plays) :
                                     screen.smash_plays[k] = screen.results[i]}) = 1
        /\ \A k, l \in 1..Len(screen.smash_plays) :
              k < l => PosIn(screen.results, screen.smash_plays[k])
                           < PosIn(screen.results, screen.smash_plays[l])

\* A mixed list: two SMASH results highlighted, another rating left out.
C18_Witness ==
    /\ Shown
    /\ Len(screen.smash_plays) = 2
    /\ Len(screen.results) = 3
    /\ \E i \in 1..Len(screen.before) : screen.before[i].rating = "LEAN"
    /\ screen.before[1].rating # "SMASH"

NonPass(seq) == Cardinality({i \in 1..Len(seq) : seq[i].rating # "PASS"})
NoPassIn(seq) == \A i \in 1..Len(seq) : seq[i].rating # "PASS"

\* C19: no PASS result is shown as a row of the report, counted in its
\* totals, named as its top play, or written to the saved results file.
C19_PassExcluded ==
    Printed =>
        /\ NoPassIn(report.rows)
        /\ report.total_analyzed = NonPass(report.results)
        /\ report.top_play # None => report.top_play.rating # "PASS"
        /\ results_file # None => NoPassIn(results_file.lines)

\* The TOTAL line counted a PASS result that has no row.
C19_PassCounted ==
    /\ Printed
    /\ \E i \in 1..Len(report.results) : report.results[i].rating = "PASS"
    /\ report.total_analyzed = Len(report.results)
    /\ report.total_analyzed > Len(report.rows)

\* The parts of C19 that the code keeps: rows, top play and saved file.
C19_RowsTopAndFile ==
    Printed =>
        /\ NoPassIn(report.rows)
        /\ Len(report.rows) = NonPass(report.results)
        /\ report.top_play # None => report.top_play.rating # "PASS"
        /\ results_file # None =>
              /\ NoPassIn(results_file.lines)
              /\ Len(results_file.lines) = NonPass(report.results)

(***************************************************************************)
(* Claims about what reaches the caches (Spec, SpecFetch).                 *)
(***************************************************************************)
\* C20: a cache entry is written only after a successful fetch or compute:
\* an analyze_prop call that fell back to the simulated result (transport
\* failure, empty response, undecodable response) leaves the analysis cache
\* as it was, so that the next call for the key asks the estimator again.
C20_FallbackNotCached ==
    [][ (analysis' # None /\ analysis' # analysis /\ analysis'.path = "simulated")
            => analysis_cache' = analysis_cache ]_vars

\* The simulated result of a call whose request failed is in the analysis
\* cache, stamped with the time of the call.
C20_FallbackCached ==
    /\ analysis # None
    /\ analysis.path = "simulated"
    /\ analysis.request.response = <<>>
    /\ analysis_cache.exists
    /\ \E k \in DOMAIN analysis_cache.entries :
          /\ analysis_cache.entries[k].timestamp = now
          /\ JsonLoad(analysis_cache.entries[k].data) = PyDict(analysis.result)

\* The part of C20 that the fetcher keeps: the demo data returned without a
\* request or after a failed one is not written to the cache.
C20_DemoNotCached ==
    (fetch_call # None /\ fetch_call.path \in {"demo", "failed"})
        => nba_cache = fetch_call.before

(***************************************************************************)
(* Claims about the researcher (checked under SpecTrends).                 *)
(***************************************************************************)
TrendsReturned == trends_call # None
HitRate == trends_call.result.last_10_hit_rate

\* C26: every trend estimate get_player_trends returns (parsed, simulated or
\* read from the cache) has a last-10 hit rate in [0, 1], whatever numbers
\* the researcher's text holds.
C26_HitRateIsFraction ==
    TrendsReturned => (RLe(RZero, HitRate) /\ RLe(HitRate, ROne))

\* "15 out of 10" was parsed to a hit rate of 1.5.
C26_HitRateAboveOne ==
    /\ TrendsReturned
    /\ trends_call.path = "parsed"
    /\ trends_call.response = <<Num(15), Word("out of 10")>>
    /\ HitRate = Rat(3, 2)

\* The part of C26 that the code keeps: a simulated estimate is in [0.4, 0.8].
C26_SimulatedInRange ==
    (TrendsReturned /\ trends_call.path \in {"disabled", "simulated"})
        => (RLe(Rat(4, 10), HitRate) /\ RLe(HitRate, Rat(8, 10)))

\* The hit rate of 1.5 comes back from the cache too.
C26_CachedAboveOne ==
    /\ TrendsReturned
    /\ trends_call.path = "cache"
    /\ RLt(ROne, HitRate)

(***************************************************************************)
(* Claims about freshness (SpecFetch, SpecTrends).                         *)
(***************************************************************************)
FetchKey == IF fetch_call.op = "get_schedule" THEN "schedule"
            ELSE PropsKey(fetch_call.game_id)
FetchTtl == IF fetch_call.op = "get_schedule" THEN SCHEDULE_CACHE_MINUTES
            ELSE PROPS_CACHE_MINUTES
\* The cache held an entry for the call's key, stored less than the TTL
\* before the call.
HadFreshEntry ==
    /\ fetch_call # None
    /\ fetch_call.before.exists
    /\ FetchKey \in DOMAIN fetch_call.before.entries
    /\ fetch_call.at - fetch_call.before.entries[FetchKey].timestamp < FetchTtl
StoredPayload == JsonLoad(fetch_call.before.entries[FetchKey].data)

\* C21: after a successful fetch has stored an entry under a key, every later
\* call for the key made before the TTL elapses returns the stored payload
\* and issues no request.
C21_FreshEntryServed ==
    HadFreshEntry =>
        /\ fetch_call.path = "cache"
        /\ fetch_call.result = StoredPayload

\* The provider's empty list of events was stored, and the next call for the
\* schedule within the TTL asked the provider again.
C21_EmptyScheduleRefetched ==
    /\ HadFreshEntry
    /\ fetch_call.op = "get_schedule"
    /\ StoredPayload = EmptyList
    /\ fetch_call.at > fetch_call.before.entries[FetchKey].timestamp
    /\ Requested(fetch_call.path)

\* The part of C21 that the code keeps: a stored payload that is not empty is
\* served from the cache.
C21_NonEmptyServed ==
    (HadFreshEntry /\ Truthy(StoredPayload)) =>
        /\ fetch_call.path = "cache"
        /\ fetch_call.result = StoredPayload

TrendsHadFreshEntry ==
    /\ trends_call # None
    /\ trends_call.before.exists
    /\ LET k == trends_cache_key(ThePlayer, "points", TheLine, "Over")
       IN  /\ k \in DOMAIN trends_call.before.entries
           /\ trends_call.at - trends_call.before.entries[k].timestamp
                  < TRENDS_CACHE_MINUTES

\* The same for get_player_trends (under SpecTrends).
C21_TrendsServed ==
    TrendsHadFreshEntry =>
        /\ trends_call.path = "cache"
        /\ PyDict(trends_call.result)
               = JsonLoad(trends_call.before.entries[
                     trends_cache_key(ThePlayer, "points", TheLine, "Over")].data)
        /\ trends_cache = trends_call.before

\* A file whose only entry, stored now under the key, has an empty payload.
EmptyEntryFile(cache_key) == FileOf(WithEntry(NoEntries, cache_key, EmptyDict))

\* C29: a fresh entry whose payload is empty is treated as a miss: the call
\* goes on to the provider or the fallback although the entry is within its
\* TTL.  For get_schedule and get_props_for_game on the calls made; for
\* get_player_trends and analyze_prop's cache read on a file holding such an
\* entry.
C29_EmptyIsMiss ==
    /\ (HadFreshEntry /\ ~Truthy(StoredPayload)) => fetch_call.path # "cache"
    /\ LET k == trends_cache_key(ThePlayer, "points", TheLine, "Over")
       IN  \A out \in get_player_trends(EmptyEntryFile(k), TRUE, ThePlayer, "points",
                                        TheLine, "Over", <<Num(7), Word("out of 10")>>) :
              out.path = "parsed"
    /\ LET k == Append(_get_cache_key(ThePlayer, "PTS", TheLine, Hundredths(191)), "Over")
       IN  ~Truthy(_load_cached_analysis(EmptyEntryFile(k), k, ANALYSIS_CACHE_MINUTES))

\* An event without bookmakers gave an empty list of props, which was
\* stored; the next call for the game's props within the TTL went to the
\* provider again.
C29_Witness ==
    /\ HadFreshEntry
    /\ fetch_call.op = "get_props_for_game"
    /\ StoredPayload = EmptyList
    /\ fetch_call.at = fetch_call.before.entries[FetchKey].timestamp + 14
    /\ fetch_call.path = "provider"

\* The records of the props whose processing succeeded, in the order the
\* props were submitted.
SubmittedOrder ==
    LET returned == [w \in 1..Len(pool) |-> pool[w].returned]
    IN  SelectSeq(returned, LAMBDA r : r # None)

\* C22: the order displayed for the batch results does not depend on the
\* order in which the tasks completed: whatever that order was, the report
\* lists the results as it lists them when they complete in submission order.
C22_OrderIndependentOfCompletion ==
    (PoolDone /\ Printed) =>
        report.results = display_results(SubmittedOrder).results

\* Two props with the same edge, displayed in the order they completed in:
\* the one submitted second first.
C22_CompletionOrderShown ==
    /\ PoolDone /\ Printed
    /\ Len(report.results) >= 2
    /\ report.results[1].player = Players[2]
    /\ report.results[2].player = Players[1]
    /\ report.results[1].edge = report.results[2].edge

\* The part of C22 that the code keeps: results of different edges are
\* displayed by edge, whatever the completion order.
C22_DistinctEdgesByEdge ==
    (PoolDone /\ Printed) =>
        \A i, j \in 1..Len(report.results) :
            i < j => RLe(report.results[j].edge, report.results[i].edge)

(***************************************************************************)
(* Claims about the estimator's answers (checked under Spec).              *)
(***************************************************************************)
Asked == analysis # None /\ analysis.status = "ok" /\ analysis.request.made
\* The text from its first '{' to its last '}' is a JSON object.
HoldsObject(text) ==
    LET first == Find(text, "{")
        last == RFind(text, "}")
    IN  /\ first # 0 /\ last # 0
        /\ SubSeq(text, first, last) \in {<<"{", "}">>, <<"{", "f", "}">>}

\* C23: an estimator response from which no JSON object can be parsed (no
\* brace at all, or unparsable content between the first '{' and the last
\* '}') yields the simulated fallback result, never a result built from
\* defaults.
C23_UnparsableIsFailure ==
    (Asked /\ ~HoldsObject(analysis.request.response))
        => analysis.path = "simulated"

\* A text without a brace was answered with the defaults: edge 0, PASS,
\* Medium, "No reasoning".
C23_DefaultsReturned ==
    /\ Asked
    /\ analysis.request.response = <<"w">>
    /\ analysis.path = "parsed"
    /\ analysis.result = [edge_percentage |-> RZero, rating |-> "PASS",
                          confidence |-> "Medium", reasoning |-> "No reasoning"]

\* The part of C23 that the code keeps: content between the braces that does
\* not parse gives the fallback.
C23_BadContentIsFailure ==
    (Asked /\ analysis.request.response \in {<<"{", "w", "}">>, <<"}", "{">>,
                                              <<"{", "f", "}", "}">>})
        => analysis.path = "simulated"

\* C24: a rating label of the estimator outside {SMASH, LEAN, PASS, FADE} is
\* discarded and the rating is the threshold table's for the normalized,
\* clamped edge; every result analyze_prop returns has a rating of the four.
C24_UnknownLabelRecomputed ==
    Returned =>
        /\ analysis.result.rating \in {"SMASH", "LEAN", "PASS", "FADE"}
        /\ (/\ analysis.path = "parsed"
            /\ analysis.request.data.rating
                   \notin {"SMASH", "LEAN", "PASS", "FADE", Missing})
               => analysis.result.rating = TableRating(EdgeNum, EdgeDen)

\* The label BOGUS with an edge of 50 (a percentage: 0.5, clamped to 0.3)
\* came back as SMASH.
C24_Witness ==
    /\ Returned
    /\ analysis.path = "parsed"
    /\ analysis.request.data.rating = "BOGUS"
    /\ analysis.request.data.edge_percentage = NumEdge(5000)
    /\ analysis.result.edge_percentage = <<3, 10>>
    /\ analysis.result.rating = "SMASH"

(***************************************************************************)
(* Claims about the batch workflow's quotes (checked under SpecQuotes).    *)
(***************************************************************************)
Reference == better_call.current_prop
\* The positions of the quotes with the reference's player and stat, a line
\* less than 0.5 from its line and a price strictly greater than its price.
BetterQuotes ==
    {i \in 1..Len(props.items) :
        /\ props.items[i].player = Reference.player
        /\ props.items[i].stat_type = Reference.stat_type
        /\ props.items[i].line - Reference.line < 5
        /\ Reference.line - props.items[i].line < 5
        /\ props.items[i].odds > Reference.odds}
FirstBest(positions) ==
    CHOOSE i \in positions :
        \A j \in positions :
            \/ props.items[j].odds < props.items[i].odds
            \/ (props.items[j].odds = props.items[i].odds /\ i <= j)

\* C25: find_better_odds returns, among the quotes with the same player and
\* stat whose line is less than 0.5 from the reference line and whose price
\* is strictly greater than the reference price, one of maximum price (the
\* first in input order on ties), and none when there is no such quote.
C25_BestAlternative ==
    better_call # None =>
        IF BetterQuotes = {} THEN better_call.returned = None
        ELSE better_call.returned = props.items[FirstBest(BetterQuotes)]

\* Four quotes: the reference at 1.91, two alternatives tied at 1.95 of which
\* the first (another line and side, 0.4 away) is returned, and a quote at
\* 2.05 whose line is 0.5 away.
C25_Witness ==
    /\ better_call # None
    /\ Len(props.items) = 4
    /\ Reference.odds = 191
    /\ Cardinality(BetterQuotes) = 2
    /\ better_call.returned # None
    /\ better_call.returned = props.items[2]
    /\ props.items[2].line = 289
    /\ props.items[3].odds = 195
    /\ props.items[4].odds = 205 /\ props.items[4].line = 290

\* No alternative: nothing is returned.
C25_NoneReturned ==
    /\ better_call # None
    /\ Len(props.items) >= 3
    /\ \E i \in 1..Len(props.items) : props.items[i].odds > Reference.odds
    /\ better_call.returned = None

BatchRun == run # None /\ run.mode = "batch"
\* The props left by the run's book filter.
Filtered ==
    IF run.selected_book = NoFilter THEN props.items
    ELSE SelectSeq(props.items, LAMBDA q : q.book = run.selected_book)
GroupOf(q) ==
    {i \in 1..Len(Filtered) :
        Filtered[i].player = q.player /\ Filtered[i].stat_type = q.stat_type}
FirstHighest(group) ==
    CHOOSE i \in group :
        \A j \in group :
            \/ Filtered[j].odds < Filtered[i].odds
            \/ (Filtered[j].odds = Filtered[i].odds /\ i <= j)
RowsOf(q) ==
    {k \in 1..Len(run.rows) :
        run.rows[k].player = q.player /\ run.rows[k].market = q.market}

\* C30: the batch de-duplication keeps exactly one prop for each (player,
\* stat_type) pair of the book-filtered props, the one with the highest odds
\* of its group (the first in input order on ties), whatever the lines and
\* sides; every pair of the input is represented.
C30_OnePerPairBestOdds ==
    BatchRun =>
        /\ Len(run.rows)
               = Cardinality({<<Filtered[i].player, Filtered[i].stat_type>> :
                                 i \in 1..Len(Filtered)})
        /\ \A i \in 1..Len(Filtered) :
              /\ Cardinality(RowsOf(Filtered[i])) = 1
              /\ LET kept == run.rows[CHOOSE k \in RowsOf(Filtered[i]) : TRUE]
                     best == Filtered[FirstHighest(GroupOf(Filtered[i]))]
                 IN  /\ kept.odds = best.odds
                     /\ kept.book = best.book
                     /\ kept.line = best.line
                     /\ kept.side = SideOf(best)

\* Three pairs among four props; the pair with two props keeps the second,
\* which has the higher odds and another line.
C30_Witness ==
    /\ BatchRun
    /\ run.selected_book = NoFilter
    /\ Len(props.items) = 4
    /\ Len(run.rows) = 3
    /\ props.items[1].line = 285 /\ props.items[1].odds = 195
    /\ props.items[4].line = 290 /\ props.items[4].odds = 205
    /\ run.rows[1].line = 290 /\ run.rows[1].odds = 205

\* Two props of a pair tied on odds, with different lines and sides: the
\* first is kept.
C30_TieKeepsFirst ==
    /\ BatchRun
    /\ Len(Filtered) >= 2
    /\ Filtered[1].odds = 195 /\ Filtered[1].line = 289
    /\ Filtered[2].odds = 195 /\ Filtered[2].line = 285
    /\ Len(run.rows) = 1
    /\ run.rows[1].line = 289

(***************************************************************************)
(* Claim C27: the frame of a save.                                         *)
(***************************************************************************)
EntriesOf(file) == IF file.exists THEN file.entries ELSE NoEntries

\* The keys of a file whose entry is gone or different after a step.
Touched(before, after) ==
    {k \in DOMAIN before : k \notin DOMAIN after \/ after[k] # before[k]}

SaveStep == cache_saves' = cache_saves + 1

Staked == "kelly_pct" \in DOMAIN stake_call

\* C28: for a prop with odds above 1, the stake process_prop computes with
\* win probability 1/odds + edge is above zero exactly when the edge is
\* above zero, and is zero when the edge is zero or below, whatever the
\* rating.
C28_StakePositiveIffEdgePositive ==
    Staked => (stake_call.kelly_pct.sign > 0 <=> stake_call.edge > 0)

\* The demo quote at 1.95 with an edge of exactly 0: in exact arithmetic the
\* stake is 0, in binary64 kelly_pct is about 2.9e-15, above zero.
C28_PositiveStakeAtZeroEdge ==
    /\ Staked
    /\ stake_call.odds = 195
    /\ stake_call.edge = 0
    /\ stake_call.rating = "PASS"
    /\ stake_call.exact = RZero
    /\ stake_call.kelly_pct.sign > 0

\* In exact arithmetic the stake is above zero exactly when the edge is.
C28_ExactStakeSign ==
    Staked => (RLt(RZero, stake_call.exact) <=> stake_call.edge > 0)

\* In binary64 the sign is right for every edge other than zero.
C28_NonZeroEdgesDecided ==
    (Staked /\ stake_call.edge # 0) =>
        (stake_call.kelly_pct.sign > 0 <=> stake_call.edge > 0)

====
